---- MODULE Spec2Model ----
(***************************************************************************)
(* The rich-text editor component (CKEditor) of print-24: the editable     *)
(* document, the ambient selection, the value/onChange contract with the   *)
(* owner, and the command handlers.  The repository holds two copies of    *)
(* the component; `impl` says which one is mounted:                        *)
(*   "main"   - src/unnamed/part_000                                       *)
(*   "client" - src/client/components/CKEditor.tsx                         *)
(* Handlers that are the same text in both copies are modelled once,       *)
(* handlers that differ have a second definition with the suffix Client.   *)
(***************************************************************************)
EXTENDS Integers, Sequences, FiniteSets, TLC

VARIABLES
  impl,       \* which copy of the component is mounted
  doc,        \* children of the editable root (editorRef.current.childNodes)
  sel,        \* window.getSelection(): rangeCount and the range's boundary points
  focused,    \* document.activeElement === editorRef.current
  rootAlign,  \* editorRef.current.style.textAlign
  rootDir,    \* editorRef.current dir attribute / style.direction
  value,      \* the value prop the owner currently passes
  outbox,     \* the string handed to onChange that the owner has not rendered
              \* yet, None when there is none
  ops,        \* user gestures so far: selection changes and editing callbacks
  last,       \* what the last callback did (observation only)
  dlg,        \* the useState hooks of the two dialogs, the uploads in flight
  srv         \* the server: the request a wrapped route handler is answering
              \* and the FileReaders at work

vars == <<impl, doc, sel, focused, rootAlign, rootDir, value, outbox, ops, last, dlg, srv>>

----------------------------------------------------------------------------
(* Bounds *)

MaxOps == 2      \* user gestures (selection changes, editing callbacks) per behaviour

----------------------------------------------------------------------------
(* DOM nodes.  A node is a record; text nodes carry txt, elements carry    *)
(* kids, align is the element's style.textAlign ("" when not set), attr    *)
(* is the href or src (a sequence of characters, like txt).                *)

T(s) == [tag |-> "#text", align |-> "", attr |-> <<>>, txt |-> s, kids |-> <<>>]

E(tag, align, kids) == [tag |-> tag, align |-> align, attr |-> <<>>, txt |-> <<>>, kids |-> kids]

IsText(n) == n.tag = "#text"

\* <bdo dir="rtl">: an element that comes with a dir attribute of its own
Rtl(kids) == E("bdo", "", kids)

\* the dir attribute of a node, "" when it has none
OwnDir(n) == IF n.tag = "bdo" THEN "rtl" ELSE ""

\* the tag names both setAlignment selectors list
BlockTags == {"p", "div", "h1", "h2", "h3", "h4", "h5", "h6", "li"}

Alignments == {"left", "center", "right"}

Pos(path, off) == [path |-> path, off |-> off]

NoSel == [n |-> 0, s |-> Pos(<<>>, 0), e |-> Pos(<<>>, 0)]

Caret(p) == [n |-> 1, s |-> p, e |-> p]

Range(s, e) == [n |-> 1, s |-> s, e |-> e]

IsCollapsed(r) == r.n = 0 \/ r.s = r.e

\* window.getSelection() is the selection of the whole page: a caret in a
\* node that is no descendant of the editor root (a field of a dialog, a
\* text elsewhere on the page) has a path that starts with 0
OutsideCaret == Caret(Pos(<<0>>, 0))

Outside(r) == r.n = 1 /\ r.s.path # <<>> /\ r.s.path[1] = 0

Front(s) == SubSeq(s, 1, Len(s) - 1)

Last(s) == s[Len(s)]

RECURSIVE NodeAt(_, _)
NodeAt(kids, path) ==
  IF Len(path) = 1 THEN kids[path[1]]
  ELSE NodeAt(kids[path[1]].kids, Tail(path))

KidsAt(kids, path) == IF path = <<>> THEN kids ELSE NodeAt(kids, path).kids

RECURSIVE SetKids(_, _, _)
SetKids(kids, path, new) ==
  IF path = <<>> THEN new
  ELSE [kids EXCEPT ![path[1]] =
          [@ EXCEPT !.kids = SetKids(@, Tail(path), new)]]

RECURSIVE SetNode(_, _, _)
SetNode(kids, path, n) ==
  IF Len(path) = 1 THEN [kids EXCEPT ![path[1]] = n]
  ELSE [kids EXCEPT ![path[1]] = [@ EXCEPT !.kids = SetNode(@, Tail(path), n)]]

\* every path of a node below the root, in any order
RECURSIVE Paths(_)
Paths(kids) ==
  UNION { {<<i>>} \cup { <<i>> \o p : p \in Paths(kids[i].kids) } : i \in 1..Len(kids) }

\* the text nodes in document order, as paths (TreeWalker with SHOW_TEXT)
RECURSIVE TextPaths(_)
TextPaths(kids) ==
  IF kids = <<>> THEN <<>>
  ELSE LET n == Head(kids)
           here == IF IsText(n) THEN << <<1>> >>
                   ELSE [j \in 1..Len(TextPaths(n.kids)) |-> <<1>> \o TextPaths(n.kids)[j]]
           rest == TextPaths(Tail(kids))
       IN here \o [j \in 1..Len(rest) |-> <<rest[j][1] + 1>> \o Tail(rest[j])]

\* the characters of all text nodes in document order (textContent)
RECURSIVE TextOf(_)
TextOf(kids) ==
  IF kids = <<>> THEN <<>>
  ELSE (IF IsText(Head(kids)) THEN Head(kids).txt ELSE TextOf(Head(kids).kids))
       \o TextOf(Tail(kids))

\* the characters before boundary point (path, off)
RECURSIVE TextBefore(_, _, _)
TextBefore(kids, path, off) ==
  IF path = <<>> THEN TextOf(SubSeq(kids, 1, off))
  ELSE LET i == path[1] IN
       TextOf(SubSeq(kids, 1, i - 1)) \o
       (IF IsText(kids[i]) THEN SubSeq(kids[i].txt, 1, off)
        ELSE TextBefore(kids[i].kids, Tail(path), off))

\* String.prototype.trim() leaves nothing
Blank(s) == \A i \in 1..Len(s) : s[i] = " "

\* all descendants matching the selector 'p, div, h1, h2, h3, h4, h5, h6, li'
BlockPaths(kids) == { p \in Paths(kids) : NodeAt(kids, p).tag \in BlockTags }

\* all descendants matching '[style*="text-align"]'
HasAlignedChildren(kids) == \E p \in Paths(kids) : NodeAt(kids, p).align # ""

\* the computed direction of the node at path: part_000 styles the root
\* alone ([contenteditable] { direction: ltr !important }), so a node
\* takes the nearest dir attribute from itself up to the root;
\* CKEditor.tsx also has [contenteditable] * { direction: ltr !important }
RECURSIVE ComputedDirection(_, _, _, _)
ComputedDirection(i, kids, path, inherited) ==
  IF i = "client" THEN "ltr"
  ELSE LET n == kids[path[1]]
           own == IF OwnDir(n) # "" THEN OwnDir(n) ELSE inherited
       IN IF Len(path) = 1 THEN own
          ELSE ComputedDirection(i, n.kids, Tail(path), own)

----------------------------------------------------------------------------
(* Markup strings.  A string is the markup it spells plus its spelling:    *)
(* "canon" is the spelling the browser's serializer produces, "raw" any    *)
(* other spelling of the same markup (upper-case tags, style without       *)
(* spaces, <br/>): two strings are equal only if both agree.               *)

Str(form, m) == [form |-> form, m |-> m]

EmptyStr == Str("canon", <<>>)

\* no string
None == Str("none", <<>>)

\* what the serializer writes for a list of nodes: node boundaries between
\* adjacent text nodes and empty text nodes leave no trace in the string
RECURSIVE Markup(_)
Markup(kids) ==
  IF kids = <<>> THEN <<>>
  ELSE LET n == Head(kids)
           rest == Markup(Tail(kids))
       IN IF IsText(n)
          THEN IF n.txt = <<>> THEN rest
               ELSE IF rest # <<>> /\ IsText(Head(rest))
                    THEN <<T(n.txt \o Head(rest).txt)>> \o Tail(rest)
                    ELSE <<n>> \o rest
          ELSE <<[n EXCEPT !.kids = Markup(n.kids)]>> \o rest

\* reading editorRef.current.innerHTML
InnerHTML(kids) == Str("canon", Markup(kids))

\* assigning editorRef.current.innerHTML = v: the parser forgets the spelling
Parse(v) == v.m

----------------------------------------------------------------------------
(* Range operations of the DOM, on boundary points (path, off).            *)

RECURSIVE CommonPrefix(_, _)
CommonPrefix(p, q) ==
  IF p = <<>> \/ q = <<>> \/ p[1] # q[1] THEN <<>>
  ELSE <<p[1]>> \o CommonPrefix(Tail(p), Tail(q))

IsPrefix(p, q) == Len(p) <= Len(q) /\ SubSeq(q, 1, Len(p)) = p

\* range.commonAncestorContainer
CommonAncestor(r) == CommonPrefix(r.s.path, r.e.path)

\* Range.extractContents / deleteContents on the children `kids` of a node,
\* boundary points given relative to that node: what stays and what leaves.
RECURSIVE Cut(_, _, _, _, _)
Cut(kids, sp, so, ep, eo) ==
  IF sp = <<>> /\ ep = <<>>
  THEN [rest |-> SubSeq(kids, 1, so) \o SubSeq(kids, eo + 1, Len(kids)),
        frag |-> SubSeq(kids, so + 1, eo)]
  ELSE IF sp # <<>> /\ ep # <<>> /\ sp[1] = ep[1]
  THEN LET i == sp[1]
           n == kids[i]
       IN IF IsText(n)
          THEN [rest |-> [kids EXCEPT ![i] =
                            T(SubSeq(n.txt, 1, so) \o SubSeq(n.txt, eo + 1, Len(n.txt)))],
                frag |-> <<T(SubSeq(n.txt, so + 1, eo))>>]
          ELSE LET r == Cut(n.kids, Tail(sp), so, Tail(ep), eo)
               IN [rest |-> [kids EXCEPT ![i] = [n EXCEPT !.kids = r.rest]],
                   frag |-> r.frag]
  ELSE \* this node is the common ancestor and a child is partially contained
       LET firstIn == IF sp = <<>> THEN so + 1 ELSE sp[1] + 1
           lastIn == IF ep = <<>> THEN eo ELSE ep[1] - 1
           hd == IF sp = <<>>
                 THEN [keep |-> SubSeq(kids, 1, so), frag |-> <<>>]
                 ELSE LET n == kids[sp[1]]
                          r == IF IsText(n)
                               THEN [rest |-> T(SubSeq(n.txt, 1, so)),
                                     frag |-> T(SubSeq(n.txt, so + 1, Len(n.txt)))]
                               ELSE LET c == Cut(n.kids, Tail(sp), so, <<>>, Len(n.kids))
                                    IN [rest |-> [n EXCEPT !.kids = c.rest],
                                        frag |-> [n EXCEPT !.kids = c.frag]]
                      IN [keep |-> SubSeq(kids, 1, sp[1] - 1) \o <<r.rest>>,
                          frag |-> <<r.frag>>]
           tl == IF ep = <<>>
                 THEN [keep |-> SubSeq(kids, eo + 1, Len(kids)), frag |-> <<>>]
                 ELSE LET n == kids[ep[1]]
                          r == IF IsText(n)
                               THEN [rest |-> T(SubSeq(n.txt, eo + 1, Len(n.txt))),
                                     frag |-> T(SubSeq(n.txt, 1, eo))]
                               ELSE LET c == Cut(n.kids, <<>>, 0, Tail(ep), eo)
                                    IN [rest |-> [n EXCEPT !.kids = c.rest],
                                        frag |-> [n EXCEPT !.kids = c.frag]]
                      IN [keep |-> <<r.rest>> \o SubSeq(kids, ep[1] + 1, Len(kids)),
                          frag |-> <<r.frag>>]
       IN [rest |-> hd.keep \o tl.keep,
           frag |-> hd.frag \o SubSeq(kids, firstIn, lastIn) \o tl.frag]

\* where the range collapses to after extractContents / deleteContents
CutPoint(r) ==
  IF IsPrefix(r.s.path, r.e.path) THEN r.s
  ELSE LET c == CommonPrefix(r.s.path, r.e.path)
       IN Pos(c, r.s.path[Len(c) + 1])

\* Range.extractContents: the document and live range afterwards, and the fragment
ExtractContents(kids, r) ==
  LET c == Cut(kids, r.s.path, r.s.off, r.e.path, r.e.off)
  IN IF r.s = r.e THEN [doc |-> kids, range |-> r, frag |-> <<>>]
     ELSE [doc |-> c.rest, range |-> Caret(CutPoint(r)), frag |-> c.frag]

\* Range.insertNode on a collapsed range, `nodes` being the node or the
\* children of the DocumentFragment: a text container is split at the
\* offset, the live range ends after the inserted nodes
InsertNode(kids, r, nodes) ==
  LET p == r.s.path
      o == r.s.off
  IN IF p # <<>> /\ IsText(NodeAt(kids, p))
     THEN LET up == Front(p)
              i == Last(p)
              sib == KidsAt(kids, up)
              t == sib[i]
              new == SubSeq(sib, 1, i - 1)
                     \o <<T(SubSeq(t.txt, 1, o))>> \o nodes
                     \o <<T(SubSeq(t.txt, o + 1, Len(t.txt)))>>
                     \o SubSeq(sib, i + 1, Len(sib))
          IN [doc |-> SetKids(kids, up, new),
              range |-> Range(r.s, Pos(up, i + Len(nodes))),
              at |-> Pos(up, i)]
     ELSE LET sib == KidsAt(kids, p)
              new == SubSeq(sib, 1, o) \o nodes \o SubSeq(sib, o + 1, Len(sib))
          IN [doc |-> SetKids(kids, p, new),
              range |-> Range(r.s, Pos(p, o + Len(nodes))),
              at |-> Pos(p, o)]

----------------------------------------------------------------------------
(* The component's callbacks, as functions of the state record             *)
(*   st = [doc, sel, focused, rootAlign, rootDir, emitted (the string     *)
(*         handed to onChange in this callback, None before that),         *)
(*         emits (onChange calls in this callback), threw (an exception    *)
(*         left the callback), branch (the path taken), k (the saved       *)
(*         cursorPosition)]                                                *)

\* handleInput handing textContent instead of innerHTML to onChange
handleInputText(st) ==
  [st EXCEPT !.rootDir = "ltr",
             !.rootAlign = IF HasAlignedChildren(st.doc) THEN @ ELSE "left",
             !.emitted = Str("canon", <<T(TextOf(st.doc))>>),
             !.emits = @ + 1]

\* handleInput leaving the root's alignment alone
handleInputKeeps(st) ==
  [st EXCEPT !.rootDir = "ltr",
             !.emitted = InnerHTML(st.doc),
             !.emits = @ + 1]

\* handleInput: force ltr on the root, default the root to left when no
\* descendant is aligned, hand innerHTML to onChange
handleInput(st) ==
  [st EXCEPT !.rootDir = "ltr",
             !.rootAlign = IF HasAlignedChildren(st.doc) THEN @ ELSE "left",
             !.emitted = InnerHTML(st.doc),
             !.emits = @ + 1]

\* handleFocus: ltr and left on the root; a caret at (root, 0) when the
\* text content is empty or blank
handleFocus(st) ==
  [st EXCEPT !.rootDir = "ltr",
             !.rootAlign = "left",
             !.sel = IF Blank(TextOf(st.doc)) THEN Caret(Pos(<<>>, 0)) ELSE @]

\* editorRef.current.focus(): the focus event runs onFocus when the editor
\* did not have focus; the call itself leaves the selection alone
FocusCall(st) ==
  IF st.focused THEN st ELSE handleFocus([st EXCEPT !.focused = TRUE])

\* a restore loop that falls back to the end of the last text node
RECURSIVE RestoreWalkClamped(_, _, _, _, _)
RestoreWalkClamped(kids, leaves, i, charCount, cursorPosition) ==
  IF i > Len(leaves)
  THEN IF leaves = <<>> THEN [found |-> FALSE, pos |-> Pos(<<>>, 0)]
       ELSE [found |-> TRUE,
             pos |-> Pos(Last(leaves), Len(NodeAt(kids, Last(leaves)).txt))]
  ELSE LET nodeLength == Len(NodeAt(kids, leaves[i]).txt)
       IN IF charCount + nodeLength >= cursorPosition
          THEN [found |-> TRUE, pos |-> Pos(leaves[i], cursorPosition - charCount)]
          ELSE RestoreWalkClamped(kids, leaves, i + 1, charCount + nodeLength, cursorPosition)

\* the restore loop with > in place of >=
RECURSIVE RestoreWalkStrict(_, _, _, _, _)
RestoreWalkStrict(kids, leaves, i, charCount, cursorPosition) ==
  IF i > Len(leaves) THEN [found |-> FALSE, pos |-> Pos(<<>>, 0)]
  ELSE LET nodeLength == Len(NodeAt(kids, leaves[i]).txt)
       IN IF charCount + nodeLength > cursorPosition
          THEN [found |-> TRUE, pos |-> Pos(leaves[i], cursorPosition - charCount)]
          ELSE RestoreWalkStrict(kids, leaves, i + 1, charCount + nodeLength, cursorPosition)

\* the restore loop of the [value] effect over the text nodes of the new tree
RECURSIVE RestoreWalk(_, _, _, _, _)
RestoreWalk(kids, leaves, i, charCount, cursorPosition) ==
  IF i > Len(leaves) THEN [found |-> FALSE, pos |-> Pos(<<>>, 0)]
  ELSE LET nodeLength == Len(NodeAt(kids, leaves[i]).txt)
       IN IF charCount + nodeLength >= cursorPosition
          THEN [found |-> TRUE, pos |-> Pos(leaves[i], cursorPosition - charCount)]
          ELSE RestoreWalk(kids, leaves, i + 1, charCount + nodeLength, cursorPosition)

\* the [value] effect without its guard
ValueDiffersAlways(st, v) == TRUE

\* the guard of the [value] effect: value !== editorRef.current.innerHTML
ValueDiffers(st, v) == v # InnerHTML(st.doc)

\* useEffect([value]): replace the tree when the value differs from
\* innerHTML, saving and restoring the caret as a plain-text offset
reconcile(st, v) ==
  IF ~ValueDiffers(st, v) THEN [st EXCEPT !.branch = "same"]
  ELSE LET wasFocused == st.focused
           cursorPosition ==
             IF wasFocused /\ st.sel.n > 0
             THEN Len(TextBefore(st.doc, st.sel.e.path, st.sel.e.off))
             ELSE 0
           newDoc == Parse(v)
           \* the live range loses its containers and collapses to (root, 0)
           dropped == IF st.sel.n = 0 THEN st.sel ELSE Caret(Pos(<<>>, 0))
           w == RestoreWalk(newDoc, TextPaths(newDoc), 1, 0, cursorPosition)
       IN IF wasFocused /\ cursorPosition > 0 /\ w.found
          THEN [st EXCEPT !.doc = newDoc, !.sel = Caret(w.pos), !.focused = TRUE,
                          !.k = cursorPosition, !.branch = "restored"]
          ELSE [st EXCEPT !.doc = newDoc, !.sel = dropped,
                          !.k = cursorPosition, !.branch = "replaced"]

----------------------------------------------------------------------------
(* setAlignment *)

\* aligning only the blocks that are children of the root
AlignBlocksTop(kids, a) ==
  [i \in 1..Len(kids) |->
     [kids[i] EXCEPT !.align = IF kids[i].tag \in BlockTags THEN a ELSE @]]

\* blocks.forEach(block => block.style.textAlign = alignment)
RECURSIVE AlignBlocks(_, _)
AlignBlocks(kids, a) ==
  [i \in 1..Len(kids) |->
     [kids[i] EXCEPT !.align = IF kids[i].tag \in BlockTags THEN a ELSE @,
                     !.kids = AlignBlocks(@, a)]]

\* the paragraph without its textAlign
EmptyParUnaligned(a) == E("p", "", <<E("br", "", <<>>)>>)

\* p.style.textAlign = alignment; p.innerHTML = '<br>'
EmptyPar(a) == E("p", a, <<E("br", "", <<>>)>>)

\* the appended paragraph without the caret placed in it
CreateParNoCaret(st, a) ==
  [st EXCEPT !.doc = st.doc \o <<EmptyPar(a)>>, !.branch = "create"]

\* no selection, no blocks: appendChild(p) and a caret at (p, 0)
\* (part_000 lines 125-133, CKEditor.tsx lines 162-171)
CreatePar(st, a) ==
  [st EXCEPT !.doc = st.doc \o <<EmptyPar(a)>>,
             !.sel = Caret(Pos(<<Len(st.doc) + 1>>, 0)),
             !.branch = "create"]

\* the ancestor walk from range.commonAncestorContainer up to the root:
\* the path of the first element with a block tag, <<>> when there is none
RECURSIVE BlockElement(_, _)
BlockElement(kids, path) ==
  IF path = <<>> THEN <<>>
  ELSE IF NodeAt(kids, path).tag \in BlockTags THEN path
  ELSE BlockElement(kids, Front(path))

\* range.toString()
RangeText(kids, r) ==
  LET b == TextBefore(kids, r.s.path, r.s.off)
      e == TextBefore(kids, r.e.path, r.e.off)
  IN SubSeq(e, Len(b) + 1, Len(e))

\* the body of setAlignment's try block in part_000 (lines 164-187);
\* fault names the DOM call that throws, "none" when none does
AlignNoBlock(st, a, fault) ==
  IF ~Blank(RangeText(st.doc, st.sel))
  THEN IF fault = "extractContents" THEN [st EXCEPT !.branch = "caught"]
       ELSE LET x == ExtractContents(st.doc, st.sel)
                i == InsertNode(x.doc, x.range, <<E("p", a, x.frag)>>)
            IN IF fault = "insertNode"
               THEN [st EXCEPT !.doc = x.doc, !.sel = x.range, !.branch = "caught"]
               ELSE handleInput([st EXCEPT !.doc = i.doc,
                                           !.sel = Caret(Pos(i.at.path, i.at.off + 1)),
                                           !.branch = "wrap"])
  ELSE IF fault = "insertNode" THEN [st EXCEPT !.branch = "caught"]
       ELSE LET i == InsertNode(st.doc, st.sel, <<EmptyPar(a)>>)
            IN handleInput([st EXCEPT !.doc = i.doc,
                                      !.sel = Caret(Pos(i.at.path \o <<i.at.off + 1>>, 0)),
                                      !.branch = "empty"])

\* setAlignment of part_000
setAlignment(st0, a, fault) ==
  LET st == FocusCall(st0) IN
  IF st.sel.n = 0
  THEN IF BlockPaths(st.doc) # {}
       THEN handleInput([st EXCEPT !.doc = AlignBlocks(st.doc, a), !.branch = "all"])
       ELSE handleInput(CreatePar(st, a))
  ELSE LET b == BlockElement(st.doc, CommonAncestor(st.sel)) IN
       IF b # <<>>
       THEN handleInput([st EXCEPT
              !.doc = SetNode(st.doc, b, [NodeAt(st.doc, b) EXCEPT !.align = a]),
              !.branch = "block"])
       ELSE AlignNoBlock(st, a, fault)


\* the path of the nearest ancestor-or-self element P, <<>> when there is none
RECURSIVE EnclosingP(_, _)
EnclosingP(kids, path) ==
  IF path = <<>> THEN <<>>
  ELSE IF NodeAt(kids, path).tag = "p" THEN path
  ELSE EnclosingP(kids, Front(path))

\* what the browser's formatBlock <p> does when it succeeds: the top-level
\* run holding the selection becomes the content of a new P (an empty
\* editor gets <p><br></p>), and the selection stays on the same content
FormatBlockP(st) ==
  LET p == st.sel.s.path
      q == st.sel.e.path
  IN IF p = <<>>
     THEN LET i == InsertNode(st.doc, st.sel, <<E("p", "", <<E("br", "", <<>>)>>)>>)
          IN [st EXCEPT !.doc = i.doc, !.sel = Caret(Pos(<<i.at.off + 1>>, 0))]
     ELSE [st EXCEPT !.doc = [st.doc EXCEPT ![p[1]] = E("p", "", <<st.doc[p[1]]>>)],
                     !.sel = Range(Pos(<<p[1], 1>> \o Tail(p), st.sel.s.off),
                                   Pos(<<q[1], 1>> \o Tail(q), st.sel.e.off))]

\* the selections on which the browser's formatBlock succeeds in this model
CanFormatBlock(st) ==
  \/ st.sel.s.path = <<>> /\ st.sel.e = st.sel.s
  \/ st.sel.s.path # <<>> /\ st.sel.e.path # <<>> /\ st.sel.s.path[1] = st.sel.e.path[1]

\* the catch block of setAlignment in CKEditor.tsx (lines 266-271)
AlignCaughtClient(st, a) ==
  handleInput([st EXCEPT !.rootAlign = a, !.branch = "caught"])

\* the body of setAlignment's try block in CKEditor.tsx (lines 209-265);
\* nat is what the browser answers to formatBlock
AlignNoBlockClient(st, a, fault, nat) ==
  IF ~Blank(RangeText(st.doc, st.sel))
  THEN IF fault = "extractContents" THEN AlignCaughtClient(st, a)
       ELSE LET x == ExtractContents(st.doc, st.sel)
                i == InsertNode(x.doc, x.range, <<E("p", a, x.frag)>>)
            IN IF fault = "insertNode"
               THEN AlignCaughtClient([st EXCEPT !.doc = x.doc, !.sel = x.range], a)
               ELSE handleInput([st EXCEPT !.doc = i.doc,
                                           !.sel = Caret(Pos(i.at.path, i.at.off + 1)),
                                           !.branch = "wrap"])
  ELSE IF fault = "execCommand" THEN AlignCaughtClient(st, a)
  ELSE LET success == nat = "true" /\ CanFormatBlock(st)
           f == IF success THEN FormatBlockP(st) ELSE st
           pp == EnclosingP(f.doc, CommonAncestor(f.sel))
       IN IF success /\ pp # <<>>
          THEN handleInput([f EXCEPT
                 !.doc = SetNode(f.doc, pp, [NodeAt(f.doc, pp) EXCEPT !.align = a]),
                 !.branch = "formatBlock"])
          ELSE IF fault = "insertNode" THEN AlignCaughtClient(f, a)
          ELSE LET i == InsertNode(f.doc, f.sel, <<EmptyPar(a)>>)
               IN handleInput([f EXCEPT !.doc = i.doc,
                                        !.sel = Caret(Pos(i.at.path \o <<i.at.off + 1>>, 0)),
                                        !.branch = "empty"])

\* content.trim() of an innerHTML string is empty
BlankStr(v) == v.m = <<>> \/ (Len(v.m) = 1 /\ IsText(v.m[1]) /\ Blank(v.m[1].txt))

\* setAlignment of CKEditor.tsx
setAlignmentClient(st0, a, fault, nat) ==
  LET st == FocusCall(st0) IN
  IF st.sel.n = 0
  THEN IF BlockPaths(st.doc) # {}
       THEN handleInput([st EXCEPT !.doc = AlignBlocks(st.doc, a), !.branch = "all"])
       ELSE IF ~BlankStr(InnerHTML(st.doc))
       THEN handleInput([st EXCEPT !.doc = <<E("p", a, Parse(InnerHTML(st.doc)))>>,
                                   !.branch = "wrapAll"])
       ELSE handleInput(CreatePar(st, a))
  ELSE LET b == BlockElement(st.doc, CommonAncestor(st.sel)) IN
       IF b # <<>>
       THEN handleInput([st EXCEPT
              !.doc = SetNode(st.doc, b, [NodeAt(st.doc, b) EXCEPT !.align = a]),
              !.branch = "block"])
       ELSE AlignNoBlockClient(st, a, fault, nat)

----------------------------------------------------------------------------
(* execCommand *)

InlineTag(command) ==
  CASE command = "bold" -> "b"
    [] command = "italic" -> "i"
    [] OTHER -> "u"

\* what the browser's bold / italic / underline does when it succeeds: a
\* range is wrapped in the inline element and stays selected; on a caret
\* only the typing style changes, the document does not
NativeInline(st, command) ==
  IF IsCollapsed(st.sel) THEN st
  ELSE LET x == ExtractContents(st.doc, st.sel)
           i == InsertNode(x.doc, x.range, <<E(InlineTag(command), "", x.frag)>>)
           at == i.at.path \o <<i.at.off + 1>>
       IN [st EXCEPT !.doc = i.doc,
                     !.sel = Range(Pos(at, 0), Pos(at, Len(x.frag)))]

\* "Ensure we have a selection" of part_000 (lines 91-102); both arms put
\* the caret at (root, childNodes.length)
EnsureSelection(st) ==
  IF st.sel.n = 0 THEN [st EXCEPT !.sel = Caret(Pos(<<>>, Len(st.doc)))] ELSE st

\* execCommand of part_000; outcome is what document.execCommand does:
\* "true", "false" (rejected) or "throws"
execCommand(st0, command, outcome) ==
  LET st == EnsureSelection(FocusCall(st0)) IN
  CASE outcome = "throws" -> [st EXCEPT !.branch = "caught"]
    [] outcome = "false" -> handleInput([st EXCEPT !.branch = "rejected"])
    [] OTHER -> handleInput([NativeInline(st, command) EXCEPT !.branch = "applied"])

\* execCommand of CKEditor.tsx: handleInput runs after the try block
execCommandClient(st0, command, outcome) ==
  LET st == EnsureSelection(FocusCall(st0)) IN
  CASE outcome = "throws" -> handleInput([st EXCEPT !.branch = "caught"])
    [] outcome = "false" -> handleInput([st EXCEPT !.branch = "rejected"])
    [] OTHER -> handleInput([NativeInline(st, command) EXCEPT !.branch = "applied"])

\* the block kinds of the heading and Normal Text buttons
BlockKinds == {"h1", "h2", "h3", "p"}

\* what a heading or Normal Text button of part_000 calls execCommand
\* with: execCommand('formatBlock', false, '<kind>')
ButtonArgs(kind) == <<"formatBlock", "false", kind>>

\* execCommand = (command, value?) => ...: value is the second argument
\* of the call, a third one is not bound to anything
ValueParam(args) == args[2]

\* the browser's formatBlock: a value that names no block element is
\* turned down and nothing changes; otherwise the top-level node holding
\* the selection becomes, or is wrapped in, an element of that kind
NativeFormatBlock(st, v) ==
  IF v \notin BlockKinds \/ ~CanFormatBlock(st) \/ st.sel.s.path = <<>>
  THEN [st EXCEPT !.branch = "rejected"]
  ELSE LET i == st.sel.s.path[1]
           n == st.doc[i]
       IN IF n.tag \in BlockKinds
          THEN [st EXCEPT !.doc = [st.doc EXCEPT ![i] = [n EXCEPT !.tag = v]],
                          !.branch = "applied"]
          ELSE [st EXCEPT !.doc = [st.doc EXCEPT ![i] = E(v, "", <<n>>)],
                          !.sel = Range(Pos(<<i, 1>> \o Tail(st.sel.s.path), st.sel.s.off),
                                        Pos(<<i, 1>> \o Tail(st.sel.e.path), st.sel.e.off)),
                          !.branch = "applied"]

\* execCommand of part_000 called by a heading or Normal Text button
execFormatBlock(st0, args) ==
  LET st == EnsureSelection(FocusCall(st0))
  IN handleInput(NativeFormatBlock(st, ValueParam(args)))

----------------------------------------------------------------------------
(* Paste, link and image insertion *)

\* String.prototype.trim()
RECURSIVE TrimLeft(_)
TrimLeft(s) == IF s # <<>> /\ Head(s) = " " THEN TrimLeft(Tail(s)) ELSE s

RECURSIVE TrimRight(_)
TrimRight(s) == IF s # <<>> /\ Last(s) = " " THEN TrimRight(Front(s)) ELSE s

Trim(s) == TrimRight(TrimLeft(s))

\* the selector handlePaste removes from the clipboard markup
StrippedTags == {"script", "style", "iframe", "object", "embed"}

\* tempDiv.querySelectorAll('script, style, iframe, object, embed')
\*   .forEach(el => el.remove())
RECURSIVE Sanitize(_)
Sanitize(kids) ==
  IF kids = <<>> THEN <<>>
  ELSE IF Head(kids).tag \in StrippedTags THEN Sanitize(Tail(kids))
  ELSE <<[Head(kids) EXCEPT !.kids = Sanitize(@)]>> \o Sanitize(Tail(kids))

\* handlePaste of part_000.  clip = [html, text]: the clipboard's text/html
\* (as markup, <<>> when absent) and text/plain.  After range.insertNode
\* (fragment) the fragment is empty, so fragment.lastChild || fragment is the
\* fragment, which has no parent: range.setStartAfter throws and the rest
\* of the handler, handleInput included, does not run.
handlePaste(st, clip) ==
  IF st.sel.n = 0 THEN [st EXCEPT !.branch = "nosel"]
  ELSE LET x == ExtractContents(st.doc, st.sel) IN
       IF ~BlankStr(Str("raw", clip.html))
       THEN LET i == InsertNode(x.doc, x.range, Sanitize(clip.html))
            IN [st EXCEPT !.doc = i.doc, !.sel = i.range, !.threw = TRUE,
                          !.branch = "html"]
       ELSE IF clip.text # <<>>
       THEN LET i == InsertNode(x.doc, x.range, <<T(clip.text)>>)
            IN handleInput([st EXCEPT !.doc = i.doc,
                                      !.sel = Caret(Pos(i.at.path, i.at.off + 1)),
                                      !.branch = "text"])
       ELSE handleInput([st EXCEPT !.doc = x.doc, !.sel = x.range, !.branch = "nothing"])

\* handlePaste of CKEditor.tsx: text/plain only
handlePasteClient(st, clip) ==
  IF st.sel.n > 0
  THEN LET x == ExtractContents(st.doc, st.sel)
           i == InsertNode(x.doc, x.range, <<T(clip.text)>>)
       IN handleInput([st EXCEPT !.doc = i.doc,
                                 !.sel = Caret(Pos(i.at.path, i.at.off + 1)),
                                 !.branch = "text"])
  ELSE handleInput([st EXCEPT !.doc = st.doc \o <<T(clip.text)>>,
                              !.sel = Caret(Pos(<<>>, Len(st.doc) + 1)),
                              !.branch = "append"])

\* range.setStart(link, 0) in place of setStartAfter(link)
StartInside(i) == Caret(Pos(i.at.path \o <<i.at.off + 1>>, 0))

\* range.setStartAfter(node); range.collapse(true) for the node that
\* insertNode has just put in
StartAfter(i) == Caret(Pos(i.at.path, i.at.off + 1))

\* the <a> element with linkText || linkUrl, the text not trimmed
LinkNodeUntrimmed(linkUrl, linkText) ==
  [tag |-> "a", align |-> "", attr |-> linkUrl, txt |-> <<>>,
   kids |-> <<T(IF linkText # <<>> THEN linkText ELSE linkUrl)>>]

\* the <a> element insertLink builds
LinkNode(linkUrl, linkText) ==
  [tag |-> "a", align |-> "", attr |-> linkUrl, txt |-> <<>>,
   kids |-> <<T(IF Trim(linkText) # <<>> THEN Trim(linkText) ELSE linkUrl)>>]

\* a surroundContents that never throws
NeverPartiallySelects(kids, r) == FALSE

\* Range.surroundContents throws InvalidStateError: the range partially
\* contains a node that is not a text node
PartiallySelectsNonText(kids, r) ==
  LET c == CommonAncestor(r)
      side(p) == /\ Len(p) > Len(c)
                 /\ (Len(p) > Len(c) + 1 \/ ~IsText(NodeAt(kids, p)))
  IN side(r.s.path) \/ side(r.e.path)

\* insertLink (the same in both copies)
insertLink(st, linkUrl, linkText) ==
  IF Trim(linkUrl) = <<>> THEN [st EXCEPT !.branch = "rejected"]
  ELSE LET link == LinkNode(linkUrl, linkText) IN
       IF Outside(st.sel)
       THEN handleInput([st EXCEPT !.outside = Append(@, link),
                                   !.sel = OutsideCaret,
                                   !.branch = "caret"])
       ELSE
       IF st.sel.n > 0 /\ ~IsCollapsed(st.sel)
       THEN LET x == ExtractContents(st.doc, st.sel)
                surround == ~PartiallySelectsNonText(st.doc, st.sel)
                node == IF surround THEN [link EXCEPT !.kids = x.frag] ELSE link
                i == InsertNode(x.doc, x.range, <<node>>)
            IN handleInput([st EXCEPT !.doc = i.doc,
                                      !.sel = StartAfter(i),
                                      !.branch = IF surround THEN "surround" ELSE "fallback"])
       ELSE LET r == IF st.sel.n > 0 THEN st.sel ELSE Caret(Pos(<<>>, Len(st.doc)))
                i == InsertNode(st.doc, r, <<link>>)
            IN handleInput([st EXCEPT !.doc = i.doc,
                                      !.sel = StartAfter(i),
                                      !.branch = "caret"])

ImgNode(url) == [tag |-> "img", align |-> "", attr |-> url, txt |-> <<>>, kids |-> <<>>]

\* insertImageFromUrl of part_000
insertImageFromUrl(st, url) ==
  IF Trim(url) = <<>> THEN [st EXCEPT !.branch = "rejected"]
  ELSE LET p == E("p", "center", <<ImgNode(url), E("br", "", <<>>)>>) IN
       IF Outside(st.sel)
       THEN handleInput(FocusCall([st EXCEPT !.outside = Append(@, p),
                                             !.sel = OutsideCaret,
                                             !.branch = "selection"]))
       ELSE
       IF st.sel.n > 0
       THEN LET x == ExtractContents(st.doc, st.sel)
                i == InsertNode(x.doc, x.range, <<p>>)
            IN handleInput(FocusCall([st EXCEPT !.doc = i.doc,
                                                !.sel = Caret(Pos(i.at.path, i.at.off + 1)),
                                                !.branch = "selection"]))
       ELSE handleInput(FocusCall([st EXCEPT !.doc = st.doc \o <<p>>,
                                             !.sel = Caret(Pos(<<>>, Len(st.doc) + 1)),
                                             !.branch = "append"]))

\* insertImageFromUrl of CKEditor.tsx: the bare <img>
insertImageFromUrlClient(st, url) ==
  IF Trim(url) = <<>> THEN [st EXCEPT !.branch = "rejected"]
  ELSE IF Outside(st.sel)
       THEN handleInput(FocusCall([st EXCEPT !.outside = Append(@, ImgNode(url)),
                                             !.sel = OutsideCaret,
                                             !.branch = "selection"]))
       ELSE
       IF st.sel.n > 0
       THEN LET x == ExtractContents(st.doc, st.sel)
                i == InsertNode(x.doc, x.range, <<ImgNode(url)>>)
            IN handleInput(FocusCall([st EXCEPT !.doc = i.doc,
                                                !.sel = Caret(Pos(i.at.path, i.at.off + 1)),
                                                !.branch = "selection"]))
       ELSE handleInput(FocusCall([st EXCEPT !.doc = st.doc \o <<ImgNode(url)>>,
                                             !.branch = "append"]))

----------------------------------------------------------------------------
(* The dialogs and the upload *)

\* 10 * 1024 * 1024, the size limit of handleImageFileSelect
MaxImageBytes == 10485760

\* imageFile === null
NoFile == [name |-> "", image |-> FALSE, size |-> 0]

\* the hooks after useState(...): both dialogs closed, nothing selected,
\* nothing uploading
DialogClosed ==
  [showLinkDialog |-> FALSE, linkUrl |-> <<>>, linkText |-> <<>>,
   showImageDialog |-> FALSE, imageFile |-> NoFile, imagePreview |-> "",
   imageUrl |-> <<>>, uploadingImage |-> FALSE,
   inflight |-> <<>>, reading |-> {}]

\* a handler's result: the editor state it leaves and the hooks it sets
Both(st, d) == [st |-> st, d |-> d]

\* the closing of the link dialog: Cancel also gives the editor focus
closeLinkDialog(st, d, kind) ==
  Both(IF kind = "cancel" THEN FocusCall(st) ELSE st,
       [d EXCEPT !.showLinkDialog = FALSE, !.linkUrl = <<>>, !.linkText = <<>>])

\* insertLink resetting the hooks whether or not the url was accepted
insertLinkDialogCloses(st, d) ==
  Both(insertLink(st, d.linkUrl, d.linkText),
       [d EXCEPT !.showLinkDialog = FALSE, !.linkUrl = <<>>, !.linkText = <<>>])

\* insertLink with the hooks it reads and resets: nothing is reset when
\* the url is blank
insertLinkDialog(st, d) ==
  LET r == insertLink(st, d.linkUrl, d.linkText)
  IN IF r.branch = "rejected" THEN Both(r, d)
     ELSE Both(r, [d EXCEPT !.showLinkDialog = FALSE,
                            !.linkUrl = <<>>, !.linkText = <<>>])

\* handleImageFileSelect turning away a file of exactly the limit
handleImageFileSelectStrict(st, d, file) ==
  IF ~file.image THEN Both([st EXCEPT !.alert = "Please select an image file"], d)
  ELSE IF file.size >= MaxImageBytes
  THEN Both([st EXCEPT !.alert = "Image size must be less than 10MB"], d)
  ELSE Both(st, [d EXCEPT !.imageFile = file,
                          !.reading = @ \cup {file.name}])

\* handleImageFileSelect (the same in both copies); file.image stands for
\* file.type.startsWith('image/')
handleImageFileSelect(st, d, file) ==
  IF ~file.image THEN Both([st EXCEPT !.alert = "Please select an image file"], d)
  ELSE IF file.size > MaxImageBytes
  THEN Both([st EXCEPT !.alert = "Image size must be less than 10MB"], d)
  ELSE Both(st, [d EXCEPT !.imageFile = file,
                          !.reading = @ \cup {file.name}])

\* reader.onloadend
previewLoaded(d, name) ==
  [d EXCEPT !.imagePreview = name, !.reading = @ \ {name}]

\* the small X next to the preview
removeFile(d) == [d EXCEPT !.imageFile = NoFile, !.imagePreview = ""]

\* the closing of the image dialog: backdrop (part_000), the X in the
\* header, Cancel, Escape in the URL field (CKEditor.tsx); the uploading
\* flag and the request are left as they are
closeImageDialog(st, d, kind) ==
  Both(IF kind \in {"close", "cancel"} THEN FocusCall(st) ELSE st,
       [d EXCEPT !.showImageDialog = FALSE, !.imageFile = NoFile,
                 !.imagePreview = "",
                 !.imageUrl = IF kind = "backdrop" THEN @ ELSE <<>>])

\* uploadAndInsertImage of part_000 up to the await of fetch
uploadAndInsertImage(st, d) ==
  IF d.imageFile = NoFile THEN Both(st, d)
  ELSE Both(st, [d EXCEPT !.uploadingImage = TRUE,
                          !.inflight = Append(@, d.imageFile)])

\* insertImage of part_000
insertImage(st, d) ==
  IF d.imageFile # NoFile THEN uploadAndInsertImage(st, d) ELSE Both(st, d)

\* insertImage of CKEditor.tsx: the file if there is one, else the URL field
insertImageClient(st, d) ==
  IF d.imageFile # NoFile THEN uploadAndInsertImage(st, d)
  ELSE IF Trim(d.imageUrl) # <<>>
  THEN Both(insertImageFromUrlClient(st, d.imageUrl),
            [d EXCEPT !.imageUrl = <<>>, !.showImageDialog = FALSE])
  ELSE Both(st, d)

\* a finally block that forgets to drop the file and the preview
uploadFinallyKeepsFile(d, i) ==
  [d EXCEPT !.uploadingImage = FALSE, !.showImageDialog = FALSE,
            !.inflight = SubSeq(@, 1, i - 1) \o SubSeq(@, i + 1, Len(@))]

\* the finally block of uploadAndInsertImage; i is the request that settled
uploadFinally(d, i) ==
  [d EXCEPT !.uploadingImage = FALSE, !.imageFile = NoFile,
            !.imagePreview = "", !.showImageDialog = FALSE,
            !.inflight = SubSeq(@, 1, i - 1) \o SubSeq(@, i + 1, Len(@))]

\* the url the upload endpoint answers with
UploadedUrl == <<"u">>

\* what a request can come to: "url" (2xx with a url), "nourl" (2xx without),
\* "status" (not 2xx), "rejects" (fetch rejects)
UploadOutcomes == {"url", "nourl", "status", "rejects"}

\* an upload whose answer is dropped once the dialog has been dismissed
uploadSettledIfOpen(st, d, i, outcome) ==
  Both(IF outcome = "url"
       THEN IF d.showImageDialog THEN insertImageFromUrl(st, UploadedUrl) ELSE st
       ELSE [st EXCEPT !.alert = IF outcome = "nourl"
                                 THEN "No image URL returned from server"
                                 ELSE "Failed to upload image"],
       uploadFinally(d, i))

\* uploadAndInsertImage of part_000 after the await of fetch
uploadSettled(st, d, i, outcome) ==
  Both(IF outcome = "url" THEN insertImageFromUrl(st, UploadedUrl)
       ELSE [st EXCEPT !.alert = IF outcome = "nourl"
                                 THEN "No image URL returned from server"
                                 ELSE "Failed to upload image"],
       uploadFinally(d, i))

\* uploadAndInsertImage of CKEditor.tsx after the await of fetch: a 2xx
\* answer without url goes by without a word
uploadSettledClient(st, d, i, outcome) ==
  Both(IF outcome = "url" THEN insertImageFromUrlClient(st, UploadedUrl)
       ELSE IF outcome = "nourl" THEN st
       ELSE [st EXCEPT !.alert = "Failed to upload image"],
       [uploadFinally(d, i) EXCEPT !.imageUrl = <<>>])

\* an Upload & Insert button that stays enabled during an upload
CanConfirmWhileUploading(i, d) ==
  d.imageFile # NoFile \/ (i = "client" /\ Trim(d.imageUrl) # <<>>)

\* the Upload & Insert button is not disabled
CanConfirmImage(i, d) ==
  /\ ~d.uploadingImage
  /\ d.imageFile # NoFile \/ (i = "client" /\ Trim(d.imageUrl) # <<>>)

----------------------------------------------------------------------------
(* Inputs *)

X == <<"x">>

\* the markup strings the owner passes as value
ExternalValues ==
  { EmptyStr,
    Str("canon", <<T(<<"x", " ", "y">>)>>),
    Str("canon", <<E("p", "", <<T(<<"x", "y">>)>>)>>),
    Str("raw",   <<E("p", "", <<T(<<"x", "y">>)>>)>>),
    Str("canon", <<E("p", "right", <<T(X)>>), E("ul", "", <<E("li", "", <<T(X)>>)>>)>>),
    Str("canon", <<E("div", "", <<E("p", "", <<T(X)>>)>>), E("b", "", <<T(X)>>)>>),
    Str("canon", <<Rtl(<<T(X)>>)>>) }

\* clipboard contents
Clips ==
  { [html |-> <<>>, text |-> X],
    [html |-> <<>>, text |-> <<>>],
    [html |-> <<E("b", "", <<T(X), E("script", "", <<T(X)>>)>>),
                E("script", "", <<T(X)>>)>>, text |-> X] }

\* what the clipboard holds: markup, plain text only, or nothing
ClipKind(clip) ==
  IF clip.html # <<>> THEN "html" ELSE IF clip.text # <<>> THEN "text" ELSE "empty"

Urls == { <<>>, <<" ">>, <<"u">> }

LinkTexts == { <<>>, <<" ">>, <<"t", " ">> }

InlineCommands == {"bold", "italic", "underline"}

\* elements without content: no boundary point is placed inside them
VoidTags == {"br", "img"}

\* the boundary points of the document
Points(kids) ==
  { Pos(<<>>, o) : o \in 0..Len(kids) } \cup
  UNION { { Pos(p, o) : o \in 0..(IF IsText(NodeAt(kids, p))
                                  THEN Len(NodeAt(kids, p).txt)
                                  ELSE Len(NodeAt(kids, p).kids)) }
          : p \in { q \in Paths(kids) : NodeAt(kids, q).tag \notin VoidTags } }

\* the selections a user makes: a caret anywhere, a range inside one text
\* node or over whole children of one element, or a range dragged from
\* inside the text of an element to the end of the document
Selections(kids) ==
  { r \in [n : {1}, s : Points(kids), e : Points(kids)] :
      \/ r.s.path = r.e.path /\ r.s.off <= r.e.off
      \/ /\ Len(r.s.path) > 1 /\ IsText(NodeAt(kids, r.s.path))
         /\ r.e = Pos(<<>>, Len(kids)) }

----------------------------------------------------------------------------
(* State machine *)

Cur ==
  [doc |-> doc, sel |-> sel, focused |-> focused, rootAlign |-> rootAlign,
   rootDir |-> rootDir, emitted |-> None,
   emits |-> 0, threw |-> FALSE, branch |-> "", k |-> 0, alert |-> "",
   outside |-> <<>>]

Obs(op, arg, fault, st) ==
  [op |-> op, arg |-> arg, fault |-> fault, branch |-> st.branch,
   emits |-> st.emits, threw |-> st.threw, k |-> st.k, alert |-> st.alert,
   outside |-> st.outside]

\* the state a callback leaves behind
Becomes(st) ==
  /\ doc' = st.doc
  /\ sel' = st.sel
  /\ focused' = st.focused
  /\ rootAlign' = st.rootAlign
  /\ rootDir' = st.rootDir
  /\ outbox' = st.emitted

\* the server is answering no request
NoRequest ==
  [phase |-> "none", how |-> "returns",
   err |-> [defined |-> FALSE, name |-> "", hasMessage |-> FALSE,
            message |-> <<>>, hasCode |-> FALSE, statusCode |-> 0],
   info |-> [isConnectionError |-> FALSE, message |-> <<>>, statusCode |-> 0],
   sent |-> <<>>, escaped |-> FALSE, unhandled |-> FALSE, nextCalls |-> 0]

\* both mount effects: the [] effect writes innerHTML (CKEditor.tsx also
\* puts a caret at the start), then the [value] effect runs once
Mounted(i, v) ==
  LET st0 == [doc |-> Parse(v),
              sel |-> IF i = "main" THEN NoSel
                      ELSE IF Parse(v) # <<>> THEN Caret(Pos(<<1>>, 0))
                      ELSE Caret(Pos(<<>>, 0)),
              focused |-> FALSE, rootAlign |-> "left", rootDir |-> "ltr",
              emitted |-> None,
              emits |-> 0, threw |-> FALSE, branch |-> "", k |-> 0, alert |-> "",
              outside |-> <<>>]
  IN reconcile(st0, v)

Init ==
  \E i \in {"main", "client"}, v \in ExternalValues :
    /\ impl = i
    /\ value = v
    /\ doc = Mounted(i, v).doc
    /\ sel = Mounted(i, v).sel
    /\ focused = FALSE
    /\ rootAlign = "left"
    /\ rootDir = "ltr"
    /\ outbox = None
    /\ ops = 0
    /\ last = Obs("mount", "", "none", Mounted(i, v))
    /\ dlg = DialogClosed
    /\ srv = NoRequest

\* the owner re-renders with a value of its own
OwnerChange ==
  /\ outbox = None
  /\ \E v \in ExternalValues \ {value} :
       /\ value' = v
       /\ Becomes(reconcile(Cur, v))
       /\ last' = Obs("reconcile", "external", "none", reconcile(Cur, v))
  /\ UNCHANGED <<srv, impl, ops, dlg>>

\* the owner stores what onChange gave it and re-renders with it
OwnerEcho ==
  /\ outbox # None
  /\ value' = outbox
  /\ Becomes(reconcile(Cur, outbox))
  /\ last' = Obs("reconcile", "echo", "none", reconcile(Cur, outbox))
  /\ UNCHANGED <<srv, impl, ops, dlg>>

\* the user moves focus into the editor
Focus ==
  /\ outbox = None /\ ~focused
  /\ Becomes(FocusCall(Cur))
  /\ last' = Obs("focus", "", "none", FocusCall(Cur))
  /\ UNCHANGED <<srv, impl, value, ops, dlg>>

\* focus leaves the editor: onBlur={handleInput}
Blur ==
  /\ outbox = None /\ focused
  /\ Becomes(handleInput([Cur EXCEPT !.focused = FALSE]))
  /\ last' = Obs("blur", "", "none", handleInput([Cur EXCEPT !.focused = FALSE]))
  /\ UNCHANGED <<srv, impl, value, ops, dlg>>

\* the user places the caret or drags a selection inside the focused editor
UserSelect ==
  /\ outbox = None /\ focused /\ ops < MaxOps
  /\ \E r \in Selections(doc) \ {sel} :
       /\ Becomes([Cur EXCEPT !.sel = r])
       /\ last' = Obs("select", "", "none", Cur)
  /\ ops' = ops + 1
  /\ UNCHANGED <<srv, impl, value, dlg>>

\* the selection is dropped while the editor does not have focus (the user
\* clicks a part of the page that takes no selection): rangeCount is 0
Deselect ==
  /\ outbox = None /\ ~focused /\ sel.n = 1 /\ ops < MaxOps
  /\ Becomes([Cur EXCEPT !.sel = NoSel])
  /\ last' = Obs("deselect", "", "none", Cur)
  /\ ops' = ops + 1
  /\ UNCHANGED <<srv, impl, value, dlg>>

\* the browser's own edit of the editable region on a key press
NativeInput(st, ch) ==
  LET x == ExtractContents(st.doc, st.sel)
      p == x.range.s.path
      o == x.range.s.off
  IN IF p # <<>> /\ IsText(NodeAt(x.doc, p))
     THEN LET t == NodeAt(x.doc, p).txt
          IN [st EXCEPT !.doc = SetNode(x.doc, p,
                                   T(SubSeq(t, 1, o) \o ch \o SubSeq(t, o + 1, Len(t)))),
                        !.sel = Caret(Pos(p, o + Len(ch)))]
     ELSE IF ch = <<>> THEN [st EXCEPT !.doc = x.doc, !.sel = x.range]
     ELSE LET i == InsertNode(x.doc, x.range, <<T(ch)>>)
          IN [st EXCEPT !.doc = i.doc,
                        !.sel = Caret(Pos(i.at.path \o <<i.at.off + 1>>, Len(ch)))]

\* typing or deleting: the browser edits the tree, then onInput={handleInput}
Typing ==
  /\ outbox = None /\ focused /\ sel.n = 1 /\ ~Outside(sel) /\ ops < MaxOps
  /\ \E ch \in {X, <<" ">>, <<>>} :
       /\ ch = <<>> => ~IsCollapsed(sel)
       /\ Becomes(handleInput([NativeInput(Cur, ch) EXCEPT !.branch = "typed"]))
       /\ last' = Obs("input", "", "none", handleInput([NativeInput(Cur, ch) EXCEPT !.branch = "typed"]))
  /\ ops' = ops + 1
  /\ UNCHANGED <<srv, impl, value, dlg>>

Faults == {"none", "extractContents", "insertNode", "execCommand"}

\* an alignment button of the toolbar
SetAlignment ==
  /\ outbox = None /\ ops < MaxOps
  /\ \E a \in Alignments, fault \in Faults, nat \in {"true", "false"} :
       LET st == IF impl = "main" THEN setAlignment(Cur, a, fault)
                 ELSE setAlignmentClient(Cur, a, fault, nat)
       IN Becomes(st) /\ last' = Obs("setAlignment", a, fault, st)
  /\ ops' = ops + 1
  /\ UNCHANGED <<srv, impl, value, dlg>>

\* a bold / italic / underline button or its keyboard shortcut
ExecCommand ==
  /\ outbox = None /\ ops < MaxOps
  /\ \E c \in InlineCommands, outcome \in {"true", "false", "throws"} :
       LET st == IF impl = "main" THEN execCommand(Cur, c, outcome)
                 ELSE execCommandClient(Cur, c, outcome)
       IN Becomes(st) /\ last' = Obs("execCommand", c, IF outcome = "throws" THEN "execCommand" ELSE "none", st)
  /\ ops' = ops + 1
  /\ UNCHANGED <<srv, impl, value, dlg>>

\* a heading (H1, H2, H3) or Normal Text button of the toolbar of part_000
SetBlockFormat ==
  /\ outbox = None /\ impl = "main" /\ ops < MaxOps
  /\ \E kind \in BlockKinds :
       LET st == execFormatBlock(Cur, ButtonArgs(kind))
       IN Becomes(st) /\ last' = Obs("formatBlock", kind, "none", st)
  /\ ops' = ops + 1
  /\ UNCHANGED <<srv, impl, value, dlg>>

\* a paste event on the focused editor
Paste ==
  /\ outbox = None /\ focused /\ ops < MaxOps
  /\ \E clip \in Clips :
       LET st == IF impl = "main" THEN handlePaste(Cur, clip)
                 ELSE handlePasteClient(Cur, clip)
       IN Becomes(st) /\ last' = Obs("paste", ClipKind(clip), "none", st)
  /\ ops' = ops + 1
  /\ UNCHANGED <<srv, impl, value, dlg>>

\* the Insert Link button of the link dialog, or Enter in one of its fields
InsertLink ==
  /\ outbox = None /\ ops < MaxOps
  /\ \E u \in Urls, t \in LinkTexts :
       LET st == insertLink(Cur, u, t)
       IN Becomes(st) /\ last' = Obs("insertLink", "", "none", st)
  /\ ops' = ops + 1
  /\ UNCHANGED <<srv, impl, value, dlg>>

\* an upload resolves with a url (or the URL field of CKEditor.tsx is used)
InsertImage ==
  /\ outbox = None /\ ops < MaxOps
  /\ \E u \in Urls :
       LET st == IF impl = "main" THEN insertImageFromUrl(Cur, u)
                 ELSE insertImageFromUrlClient(Cur, u)
       IN Becomes(st) /\ last' = Obs("insertImage", "", "none", st)
  /\ ops' = ops + 1
  /\ UNCHANGED <<srv, impl, value, dlg>>

Next ==
  \/ OwnerChange
  \/ OwnerEcho
  \/ Focus
  \/ Blur
  \/ UserSelect
  \/ Deselect
  \/ Typing
  \/ SetAlignment
  \/ ExecCommand
  \/ SetBlockFormat
  \/ Paste
  \/ InsertLink
  \/ InsertImage

Spec == Init /\ [][Next]_vars

----------------------------------------------------------------------------
(* The dialogs step by step *)

\* the files the user can pick in the file chooser
Files ==
  { [name |-> "a.png", image |-> TRUE,  size |-> MaxImageBytes],
    [name |-> "b.png", image |-> TRUE,  size |-> 1],
    [name |-> "c.png", image |-> TRUE,  size |-> MaxImageBytes + 1],
    [name |-> "d.pdf", image |-> FALSE, size |-> 1] }

\* no dialog covers the page
EditorIdle == ~dlg.showLinkDialog /\ ~dlg.showImageDialog

\* a handler of a dialog ran and left r.st and r.d
Step(op, arg, r) ==
  /\ Becomes(r.st)
  /\ dlg' = r.d
  /\ last' = Obs(op, arg, "none", r.st)
  /\ UNCHANGED <<srv, impl, value>>

\* the Insert Link button of the toolbar
OpenLinkDialog ==
  /\ outbox = None /\ EditorIdle /\ ops < MaxOps
  /\ Step("openLink", "", Both(Cur, [dlg EXCEPT !.showLinkDialog = TRUE]))
  /\ ops' = ops + 1

\* onChange of the Link URL field
TypeLinkUrl ==
  /\ outbox = None /\ dlg.showLinkDialog
  /\ \E u \in Urls \ {dlg.linkUrl} :
       Step("typeLinkUrl", "", Both(Cur, [dlg EXCEPT !.linkUrl = u]))
  /\ UNCHANGED ops

\* onChange of the Link Text field
TypeLinkText ==
  /\ outbox = None /\ dlg.showLinkDialog
  /\ \E t \in LinkTexts \ {dlg.linkText} :
       Step("typeLinkText", "", Both(Cur, [dlg EXCEPT !.linkText = t]))
  /\ UNCHANGED ops

\* the Insert button of the link dialog (disabled in part_000 while the
\* url is blank) or Enter in one of its fields
LinkConfirm ==
  /\ outbox = None /\ dlg.showLinkDialog
  /\ \E kind \in {"button", "enter"} :
       /\ (kind = "button" /\ impl = "main") => Trim(dlg.linkUrl) # <<>>
       /\ Step("insertLink", kind, insertLinkDialog(Cur, dlg))
  /\ UNCHANGED ops

\* the link dialog is dismissed: a click on the backdrop (part_000),
\* Escape in the URL field, or Cancel
LinkDismiss ==
  /\ outbox = None /\ dlg.showLinkDialog
  /\ \E kind \in {"backdrop", "escape", "cancel"} :
       /\ kind = "backdrop" => impl = "main"
       /\ Step("closeLink", kind, closeLinkDialog(Cur, dlg, kind))
  /\ UNCHANGED ops

\* the Insert Image button of the toolbar
OpenImageDialog ==
  /\ outbox = None /\ EditorIdle /\ ops < MaxOps
  /\ Step("openImage", "", Both(Cur, [dlg EXCEPT !.showImageDialog = TRUE]))
  /\ ops' = ops + 1

\* onChange of the file input (disabled while uploading)
SelectFile ==
  /\ outbox = None /\ dlg.showImageDialog /\ ~dlg.uploadingImage
  /\ \E f \in Files :
       Step("selectFile", f.name, handleImageFileSelect(Cur, dlg, f))
  /\ UNCHANGED ops

\* a FileReader finishes
PreviewLoaded ==
  /\ outbox = None
  /\ \E name \in dlg.reading :
       Step("previewLoaded", name, Both(Cur, previewLoaded(dlg, name)))
  /\ UNCHANGED ops

\* the X next to the preview
RemoveFile ==
  /\ outbox = None /\ dlg.showImageDialog /\ dlg.imagePreview # ""
  /\ Step("removeFile", "", Both(Cur, removeFile(dlg)))
  /\ UNCHANGED ops

\* onChange of the Image URL field of CKEditor.tsx (disabled while
\* uploading or while a file is selected)
TypeImageUrl ==
  /\ outbox = None /\ impl = "client" /\ dlg.showImageDialog
  /\ ~dlg.uploadingImage /\ dlg.imageFile = NoFile
  /\ \E u \in Urls \ {dlg.imageUrl} :
       Step("typeImageUrl", "", Both(Cur, [dlg EXCEPT !.imageUrl = u]))
  /\ UNCHANGED ops

\* the Upload & Insert button, or Enter in the Image URL field of
\* CKEditor.tsx
ImageConfirm ==
  /\ outbox = None /\ dlg.showImageDialog
  /\ \E kind \in {"button", "enter"} :
       /\ kind = "button" => CanConfirmImage(impl, dlg)
       /\ kind = "enter" =>
            impl = "client" /\ ~dlg.uploadingImage /\ dlg.imageFile = NoFile
       /\ Step("insertImage", kind,
               IF impl = "main" THEN insertImage(Cur, dlg)
               ELSE insertImageClient(Cur, dlg))
  /\ UNCHANGED ops

\* the fetch of an upload settles and the rest of uploadAndInsertImage runs
UploadSettles ==
  /\ outbox = None
  /\ \E i \in 1..Len(dlg.inflight), outcome \in UploadOutcomes :
       Step("uploadSettled", outcome,
            IF impl = "main" THEN uploadSettled(Cur, dlg, i, outcome)
            ELSE uploadSettledClient(Cur, dlg, i, outcome))
  /\ UNCHANGED ops

\* the image dialog is dismissed: a click on the backdrop (part_000), the
\* X in its header, Cancel (disabled while uploading), or Escape in the
\* Image URL field of CKEditor.tsx
ImageDismiss ==
  /\ outbox = None /\ dlg.showImageDialog
  /\ \E kind \in {"backdrop", "close", "cancel", "escape"} :
       /\ kind = "backdrop" => impl = "main"
       /\ kind = "cancel" => ~dlg.uploadingImage
       /\ kind = "escape" =>
            impl = "client" /\ ~dlg.uploadingImage /\ dlg.imageFile = NoFile
       /\ Step("closeImage", kind, closeImageDialog(Cur, dlg, kind))
  /\ UNCHANGED ops

\* what the user does in the editor while no dialog covers it
EditorGesture == EditorIdle /\ (Focus \/ UserSelect \/ Typing)

DialogNext ==
  \/ OwnerEcho
  \/ EditorGesture
  \/ OpenLinkDialog
  \/ TypeLinkUrl
  \/ TypeLinkText
  \/ LinkConfirm
  \/ LinkDismiss
  \/ OpenImageDialog
  \/ SelectFile
  \/ PreviewLoaded
  \/ RemoveFile
  \/ TypeImageUrl
  \/ ImageConfirm
  \/ UploadSettles
  \/ ImageDismiss

DialogSpec == Init /\ [][DialogNext]_vars

\* a request is in flight and its answer can be handled: the state
\* predicate ENABLED <<UploadSettles>>_vars (a settle step always takes its
\* request out of dlg.inflight, so it never stutters)
UploadPending == outbox = None /\ dlg.inflight # <<>>

\* fetch settles: the promise of a request in flight is resolved or
\* rejected in the end.  This is WF_vars(UploadSettles) with its ENABLED
\* written as UploadPending
FetchSettles ==
  []<>(~UploadPending) \/ []<><<UploadSettles>>_vars

\* the same with the promises kept: a request in flight settles in the
\* end, and the owner renders what onChange gave it
LiveDialogSpec ==
  DialogSpec /\ FetchSettles /\ WF_vars(OwnerEcho)

----------------------------------------------------------------------------
(* The selection of the page *)

\* the user puts the caret somewhere on the page outside the editor (a
\* click into a field of an open dialog, or into another part of the
\* form); an editor that had the focus loses it: onBlur={handleInput}
SelectOutside ==
  /\ ~Outside(sel) /\ ops < MaxOps
  /\ outbox = None
  /\ LET st == IF focused
               THEN handleInput([Cur EXCEPT !.focused = FALSE, !.sel = OutsideCaret])
               ELSE [Cur EXCEPT !.sel = OutsideCaret]
     IN Becomes(st) /\ last' = Obs("selectOutside", "", "none", st)
  /\ ops' = ops + 1
  /\ UNCHANGED <<srv, impl, value, dlg>>

AmbientNext ==
  \/ SelectOutside
  \/ DialogNext

AmbientSpec == Init /\ [][AmbientNext]_vars

----------------------------------------------------------------------------
(* The server: handleMongoError and asyncHandler.  Strings that are         *)
(* searched are sequences of characters.                                   *)

\* haystack.includes(needle)
Includes(hay, needle) ==
  \E i \in 0..(Len(hay) - Len(needle)) :
    SubSeq(hay, i + 1, i + Len(needle)) = needle

\* the error names that mark a connection error
ConnectionNames ==
  {"MongoNetworkError", "MongoServerSelectionError", "MongoTimeoutError"}

\* the substrings of a message that mark a connection error
ConnectionWords ==
  { <<"E", "T", "I", "M", "E", "D", "O", "U", "T">>,
    <<"E", "C", "O", "N", "N", "R", "E", "F", "U", "S", "E", "D">>,
    <<"c", "o", "n", "n", "e", "c", "t", "i", "o", "n">>,
    <<"t", "i", "m", "e", "d", " ", "o", "u", "t">>,
    <<"t", "i", "m", "e", "o", "u", "t">> }

\* 'Database connection temporarily unavailable. Please try again.'
ConnectionMessage ==
  <<"D", "a", "t", "a", "b", "a", "s", "e", " ", "c", "o", "n", "n", "e",
    "c", "t", "i", "o", "n", " ", "t", "e", "m", "p", "o", "r", "a", "r",
    "i", "l", "y", " ", "u", "n", "a", "v", "a", "i", "l", "a", "b", "l",
    "e", ".", " ", "P", "l", "e", "a", "s", "e", " ", "t", "r", "y", " ",
    "a", "g", "a", "i", "n", ".">>

\* 'An error occurred'
DefaultMessage ==
  <<"A", "n", " ", "e", "r", "r", "o", "r", " ", "o", "c", "c", "u", "r",
    "r", "e", "d">>

\* what a handler can throw or reject with: an error object with the
\* properties handleMongoError reads (hasMessage, hasCode: the property is
\* there), or undefined
ErrObj(name, hasMessage, message, hasCode, statusCode) ==
  [defined |-> TRUE, name |-> name, hasMessage |-> hasMessage,
   message |-> message, hasCode |-> hasCode, statusCode |-> statusCode]

Undefined ==
  [defined |-> FALSE, name |-> "", hasMessage |-> FALSE, message |-> <<>>,
   hasCode |-> FALSE, statusCode |-> 0]

\* err.name: "" stands for an error without a name
ErrNames ==
  {"", "Error", "MongoNetworkError", "MongoServerSelectionError",
   "MongoTimeoutError", "MongoServerError"}

\* err.message: '', 'connect ETIMEDOUT', 'ECONNREFUSED', 'connection',
\* 'Connection lost', 'request timed out', 'timeout', 'time out', 'Not found'
ErrMessages ==
  { <<>>,
    <<"c", "o", "n", "n", "e", "c", "t", " ", "E", "T", "I", "M", "E", "D", "O", "U", "T">>,
    <<"E", "C", "O", "N", "N", "R", "E", "F", "U", "S", "E", "D">>,
    <<"c", "o", "n", "n", "e", "c", "t", "i", "o", "n">>,
    <<"C", "o", "n", "n", "e", "c", "t", "i", "o", "n", " ", "l", "o", "s", "t">>,
    <<"r", "e", "q", "u", "e", "s", "t", " ", "t", "i", "m", "e", "d", " ", "o", "u", "t">>,
    <<"t", "i", "m", "e", "o", "u", "t">>,
    <<"t", "i", "m", "e", " ", "o", "u", "t">>,
    <<"N", "o", "t", " ", "f", "o", "u", "n", "d">> }

\* err.statusCode
ErrCodes == {0, 400, 404}

Errs ==
  { ErrObj(n, TRUE, m, c # -1, IF c = -1 THEN 0 ELSE c) :
      n \in ErrNames, m \in ErrMessages, c \in ErrCodes \cup {-1} }
  \cup
  { ErrObj(n, FALSE, <<>>, c # -1, IF c = -1 THEN 0 ELSE c) :
      n \in ErrNames, c \in ErrCodes \cup {-1} }

\* err.message?.includes(word) for one of the words
MessageIncludes(err, words) ==
  err.hasMessage /\ \E w \in words : Includes(err.message, w)

\* err.message || fallback: the empty string is falsy
MessageOr(err, fallback) ==
  IF err.hasMessage /\ err.message # <<>> THEN err.message ELSE fallback

\* err.statusCode || fallback: 0 is falsy
StatusCodeOr(err, fallback) ==
  IF err.hasCode /\ err.statusCode # 0 THEN err.statusCode ELSE fallback

\* const isConnectionError = ...
isConnectionError(err) ==
  \/ err.name \in ConnectionNames
  \/ MessageIncludes(err, ConnectionWords)

\* a handleMongoError that hands the message of a connection error on
handleMongoErrorVerbose(err) ==
  [isConnectionError |-> isConnectionError(err),
   message |-> MessageOr(err, DefaultMessage),
   statusCode |-> IF isConnectionError(err) THEN 503
                  ELSE StatusCodeOr(err, 500)]

\* handleMongoError(err, context): what it returns (the console output is
\* left out)
handleMongoError(err) ==
  IF isConnectionError(err)
  THEN [isConnectionError |-> TRUE, message |-> ConnectionMessage,
        statusCode |-> 503]
  ELSE [isConnectionError |-> FALSE,
        message |-> MessageOr(err, DefaultMessage),
        statusCode |-> StatusCodeOr(err, 500)]

\* what the wrapped handler fn does when called: it answers itself and
\* returns (a value or a promise that is fulfilled), it throws before it
\* returns (a function that is not async), or it returns a promise that
\* is rejected
Hows == {"returns", "throws", "rejects"}

NoInfo == [isConnectionError |-> FALSE, message |-> <<>>, statusCode |-> 0]

\* a request that reaches a wrapped route.  sent: the responses written by
\* the wrapper; escaped: an exception left the wrapper; unhandled: a
\* promise of the wrapper was rejected with nobody listening; nextCalls:
\* calls of next by the wrapper
Request(how, err) ==
  [phase |-> "incoming", how |-> how, err |-> err, info |-> NoInfo,
   sent |-> <<>>, escaped |-> FALSE, unhandled |-> FALSE, nextCalls |-> 0]

\* (req, res, next) => { Promise.resolve(fn(req, res, next)).catch(...) }:
\* fn(req, res, next) is evaluated before Promise.resolve is entered
asyncHandlerCall(s) ==
  IF s.how = "throws" THEN [s EXCEPT !.phase = "done", !.escaped = TRUE]
  ELSE IF s.how = "rejects" THEN [s EXCEPT !.phase = "rejected"]
  ELSE [s EXCEPT !.phase = "done"]

\* the callback of .catch: reading err.name of undefined throws a
\* TypeError inside the callback, which rejects the promise .catch returned
asyncHandlerCatch(s) ==
  IF ~s.err.defined
  THEN [s EXCEPT !.phase = "done", !.unhandled = TRUE]
  ELSE LET errorInfo == handleMongoError(s.err)
       IN [s EXCEPT !.phase = "done", !.info = errorInfo,
                    !.sent = Append(@, [status |-> errorInfo.statusCode,
                                        success |-> FALSE,
                                        error |-> errorInfo.message])]

\* the variables of the page, which the server does not touch
page == <<impl, doc, sel, focused, rootAlign, rootDir, value, outbox, ops, last, dlg>>

\* a request arrives at a wrapped route; the page is the freshly mounted
\* editor
ServerInit ==
  /\ impl = "main"
  /\ value = EmptyStr
  /\ doc = Mounted("main", EmptyStr).doc
  /\ sel = Mounted("main", EmptyStr).sel
  /\ focused = FALSE
  /\ rootAlign = "left"
  /\ rootDir = "ltr"
  /\ outbox = None
  /\ ops = 0
  /\ last = Obs("mount", "", "none", Mounted("main", EmptyStr))
  /\ dlg = DialogClosed
  /\ \E how \in Hows, err \in Errs \cup {Undefined} :
       /\ how = "returns" => err = Undefined
       /\ srv = Request(how, err)

\* Express calls the wrapper
WrapperCalled ==
  /\ srv.phase = "incoming"
  /\ srv' = asyncHandlerCall(srv)
  /\ UNCHANGED page

\* the microtask of the rejected promise runs the callback of .catch
CatchRuns ==
  /\ srv.phase = "rejected"
  /\ srv' = asyncHandlerCatch(srv)
  /\ UNCHANGED page

ServerNext ==
  \/ WrapperCalled
  \/ CatchRuns

ServerSpec == ServerInit /\ [][ServerNext]_vars

----------------------------------------------------------------------------
(* Properties *)

\* the callbacks of the component that can change the tree locally
LocalOps == {"input", "paste", "setAlignment", "execCommand", "insertLink", "insertImage"}

\* C1: reconcile(v) with v equal to the current serialization of the tree
\* is a no-op: the tree is not replaced, the selection and the focus are
\* not touched.
C1_ReconcileSameIsNoOp ==
  [][ (last'.op = "reconcile" /\ value' = InnerHTML(doc))
        => (last'.branch = "same" /\ doc' = doc /\ sel' = sel /\ focused' = focused) ]_vars

\* C1 happens: the owner passes, of its own, a string equal to innerHTML
\* while the focused editor holds a range selection
C1_Witness ==
  /\ last.op = "reconcile" /\ last.arg = "external" /\ last.branch = "same"
  /\ focused /\ sel.n = 1 /\ sel.s # sel.e

\* C2: when the owner passes back the string a callback has just emitted,
\* the reconcile is a no-op (no tree replacement, no caret or focus change)
\* and emits nothing, so the cycle ends after that one round.
C2_EchoIsNoOp ==
  [][ (last'.op = "reconcile" /\ last'.arg = "echo")
        => /\ last'.branch = "same" /\ last'.emits = 0
           /\ doc' = doc /\ sel' = sel /\ focused' = focused
           /\ outbox' = None ]_vars

\* C2 happens: a value emitted by a local edit came back and the round ended
C2_Witness ==
  /\ last.op = "reconcile" /\ last.arg = "echo"
  /\ value \notin ExternalValues /\ ops > 0 /\ outbox = None

\* C3 (as claimed): every callback that changes the tree, and every blur,
\* hands the serialization of the tree it leaves behind to onChange.
C3_EveryMutationEmits ==
  [][ ( \/ (last'.op \in LocalOps /\ doc' # doc)
        \/ last'.op = "blur" )
        => (last'.emits > 0 /\ outbox' = InnerHTML(doc')) ]_vars

\* the text nodes of kids up to and including leaf number i hold this many
\* characters
CumLen(kids, i) ==
  LET p == TextPaths(kids)[i]
  IN Len(TextBefore(kids, p, Len(NodeAt(kids, p).txt)))

\* pos is inside the first text node, in document order, whose cumulative
\* end offset reaches k, at k minus the length of the text nodes before it
FirstLeafReaching(kids, pos, k) ==
  \E i \in 1..Len(TextPaths(kids)) :
    /\ TextPaths(kids)[i] = pos.path
    /\ CumLen(kids, i) >= k
    /\ \A j \in 1..(i - 1) : CumLen(kids, j) < k
    /\ pos.off = k - (CumLen(kids, i) - Len(NodeAt(kids, pos.path).txt))

\* C4: the editor focused with the caret at plain-text offset k > 0, the
\* value v differing from innerHTML and holding at least k characters of
\* text: after reconcile(v) the caret is collapsed in the first text node
\* whose cumulative end offset reaches k, at the residual offset, and the
\* editor has focus.
C4_CaretRestored ==
  [][ LET k == Len(TextBefore(doc, sel.e.path, sel.e.off)) IN
      ( /\ last'.op = "reconcile"
        /\ focused /\ sel.n = 1 /\ sel.s = sel.e /\ k > 0
        /\ value' # InnerHTML(doc)
        /\ Len(TextOf(Parse(value'))) >= k )
        => ( /\ doc' = Parse(value')
             /\ focused' /\ sel'.n = 1 /\ sel'.s = sel'.e
             /\ FirstLeafReaching(doc', sel'.s, k) ) ]_vars

\* C4 happens: the caret was restored into a text node that is not the first
C4_Witness ==
  /\ last.op = "reconcile" /\ last.branch = "restored" /\ last.k > 1
  /\ focused /\ sel.n = 1 /\ sel.s = sel.e
  /\ Len(TextPaths(doc)) > 1 /\ sel.s.path # TextPaths(doc)[1]

----------------------------------------------------------------------------
(* setAlignment *)

\* the selection setAlignment reads after editorRef.current.focus(): the
\* focus handler of an editor that had no focus and holds no text but
\* blanks replaces whatever was selected by a caret at (root, 0)
SelAtCall ==
  IF ~focused /\ Blank(TextOf(doc)) THEN Caret(Pos(<<>>, 0)) ELSE sel

\* the elements the selector of setAlignment matches
AlignableTags == {"p", "div", "h1", "h2", "h3", "h4", "h5", "h6", "li"}

\* the block nodes as the claims list them
ClaimedBlockTags == {"p", "h1", "h2", "h3", "li", "ul", "ol"}

ListContainerTags == {"ul", "ol"}

TaggedPaths(kids, tags) == { p \in Paths(kids) : NodeAt(kids, p).tag \in tags }

ElemCount(kids) == Cardinality({ p \in Paths(kids) : ~IsText(NodeAt(kids, p)) })

\* the nearest ancestor-or-self of path with an alignable tag, <<>> for none
RECURSIVE EnclosingBlock(_, _)
EnclosingBlock(kids, path) ==
  IF path = <<>> THEN <<>>
  ELSE IF NodeAt(kids, path).tag \in AlignableTags THEN path
  ELSE EnclosingBlock(kids, Front(path))

C6_OnlyEnclosingBlock ==
  [][ ( /\ last'.op = "setAlignment" /\ sel.n = 1
        /\ EnclosingBlock(doc, CommonAncestor(sel)) # <<>> )
        => LET b == EnclosingBlock(doc, CommonAncestor(sel))
           IN doc' = SetNode(doc, b, [NodeAt(doc, b) EXCEPT !.align = last'.arg]) ]_vars

\* after the action the caret sits just after a paragraph aligned a that
\* holds the text range s held; the text of the document and what
\* precedes the paragraph are as before; the paragraph was added, and so
\* was a copy of each element that s covered only in part (its selected
\* part moved, the rest stayed)
WrapHolds(s, a) ==
  /\ sel'.n = 1 /\ sel'.s = sel'.e
  /\ sel'.s.path = <<>> \/ ~IsText(NodeAt(doc', sel'.s.path))
  /\ sel'.s.off \in 1..Len(KidsAt(doc', sel'.s.path))
  /\ LET n == KidsAt(doc', sel'.s.path)[sel'.s.off]
     IN /\ n.tag = "p" /\ n.align = a
        /\ TextOf(n.kids) = RangeText(doc, s)
  /\ TextBefore(doc', sel'.s.path \o <<sel'.s.off>>, 0)
       = TextBefore(doc, s.s.path, s.s.off)
  /\ TextOf(doc') = TextOf(doc)
  /\ ElemCount(doc') >= ElemCount(doc) + 1

\* after the action the caret sits at the start of a new paragraph
\* <p style="text-align: a"><br></p> placed where s started; nothing else
\* was added and no text moved
EmptyHolds(s, a) ==
  /\ sel'.n = 1 /\ sel'.s = sel'.e /\ sel'.s.off = 0 /\ sel'.s.path # <<>>
  /\ LET n == NodeAt(doc', sel'.s.path)
     IN /\ n.tag = "p" /\ n.align = a
        /\ Len(n.kids) = 1 /\ n.kids[1].tag = "br"
  /\ TextBefore(doc', sel'.s.path, 0) = TextBefore(doc, s.s.path, s.s.off)
  /\ TextOf(doc') = TextOf(doc)
  /\ ElemCount(doc') = ElemCount(doc) + 2

\* after the action the selection is inside a paragraph aligned a that
\* the browser's formatBlock made around the content at the selection
FormatBlockHolds(a) ==
  /\ sel'.n = 1
  /\ LET pp == EnclosingP(doc', CommonAncestor(sel'))
     IN pp # <<>> /\ NodeAt(doc', pp).align = a
  /\ TextOf(doc') = TextOf(doc)
  /\ ElemCount(doc') \in {ElemCount(doc) + 1, ElemCount(doc) + 2}

OneEmptyParAdded(a) ==
  /\ sel'.n = 1 /\ sel'.s = sel'.e /\ sel'.s.off = 0 /\ Len(sel'.s.path) = 1
  /\ LET i == sel'.s.path[1]
     IN /\ i \in 1..Len(doc')
        /\ doc'[i].tag = "p" /\ doc'[i].align = a
        /\ Len(doc'[i].kids) = 1 /\ doc'[i].kids[1].tag = "br"
        /\ SubSeq(doc', 1, i - 1) \o SubSeq(doc', i + 1, Len(doc')) = doc

C9_EveryPathEmits ==
  last.op = "setAlignment" => last.emits > 0

\* C10 (as claimed): a command that fails (the native command is rejected
\* or throws, a DOM call in setAlignment throws) lets nothing escape the
\* handler and leaves the document as it was.
C10_FailureLeavesDocument ==
  [][ ( /\ last'.op \in {"setAlignment", "execCommand"}
        /\ last'.branch \in {"caught", "rejected"} )
        => (~last'.threw /\ doc' = doc) ]_vars

----------------------------------------------------------------------------
(* insertLink *)

\* C11: insertLink with a url that is empty or all whitespace changes
\* nothing: not the tree, not the selection, not the hooks of the link
\* dialog (open flag, url, text), and nothing is emitted.
C11_BlankUrlRejected ==
  [][ (last'.op = "insertLink" /\ Blank(dlg.linkUrl))
        => /\ doc' = doc /\ sel' = sel
           /\ last'.emits = 0 /\ outbox' = None
           /\ dlg' = dlg ]_vars

\* C11 happens: Enter was pressed in the open link dialog with a url of one
\* space and a display text, over a document that is not empty
C11_Witness ==
  /\ last.op = "insertLink" /\ last.arg = "enter" /\ last.branch = "rejected"
  /\ dlg.showLinkDialog /\ dlg.linkUrl = <<" ">> /\ dlg.linkText # <<>>
  /\ doc # <<>>

\* the text of the document from boundary point pos to its end
TextAfter(kids, pos) ==
  SubSeq(TextOf(kids), Len(TextBefore(kids, pos.path, pos.off)) + 1, Len(TextOf(kids)))

\* some element that is not wholly inside range r holds only one of its
\* ends: surroundContents cannot wrap r
CannotWrap(kids, r) ==
  \E p \in Paths(kids) :
    /\ ~IsText(NodeAt(kids, p))
    /\ IsPrefix(p, r.s.path) # IsPrefix(p, r.e.path)

\* where an insertion goes: the selection's start, or the end of the
\* document when there is no selection
LinkPlace == IF sel.n = 1 THEN sel.s ELSE Pos(<<>>, Len(doc))

\* after the action there is a link at path l, with target u and the text
\* before it as given
NewLinkAt(l, u, before) ==
  /\ l \in TaggedPaths(doc', {"a"})
  /\ NodeAt(doc', l).attr = u
  /\ TextBefore(doc', l, 0) = before

\* C12: insertLink with a url that is not blank.  A non-empty range that
\* can be wrapped: its content becomes the content of one new link in
\* place, the text of the document unchanged.  A range that cannot be
\* wrapped: its content is deleted and a link holding one text is put in
\* its place.  A caret, or no selection: a link holding one text is put
\* at the caret, or at the end of the document, and nothing is removed.
C12_LinkWrapsOrInserts ==
  [][ (last'.op = "insertLink" /\ ~Blank(dlg.linkUrl))
        => \E l \in Paths(doc') :
             /\ NewLinkAt(l, dlg.linkUrl, TextBefore(doc, LinkPlace.path, LinkPlace.off))
             /\ IF sel.n = 1 /\ sel.s # sel.e /\ ~CannotWrap(doc, sel)
                THEN /\ TextOf(NodeAt(doc', l).kids) = RangeText(doc, sel)
                     /\ TextOf(doc') = TextOf(doc)
                     /\ ElemCount(doc') = ElemCount(doc) + 1
                ELSE /\ Len(NodeAt(doc', l).kids) = 1
                     /\ IsText(NodeAt(doc', l).kids[1])
                     /\ TextOf(doc') =
                          TextBefore(doc, LinkPlace.path, LinkPlace.off)
                          \o NodeAt(doc', l).kids[1].txt
                          \o TextAfter(doc, IF sel.n = 1 THEN sel.e ELSE LinkPlace)
                     /\ sel.n = 0 \/ sel.s = sel.e
                          => ElemCount(doc') = ElemCount(doc) + 1 ]_vars

\* C12 happens: a range from inside a paragraph's text to the end of the
\* document, which cannot be wrapped, was replaced by a link
C12_Witness ==
  /\ last.op = "insertLink" /\ last.branch = "fallback"
  /\ sel.n = 1 /\ sel.s.path = <<>> /\ sel.s.off >= 2
  /\ doc[sel.s.off].tag = "a" /\ doc[sel.s.off - 1].tag = "p"
  /\ TextOf(doc) # TextOf(doc[sel.s.off].kids)

\* C13: the link insertLink inserts on its own (caret, no selection,
\* range that cannot be wrapped) shows the display text trimmed, or the
\* url when the display text is blank; its target is the url.
C13_DisplayTextOrUrl ==
  [][ ( /\ last'.op = "insertLink" /\ ~Blank(dlg.linkUrl)
        /\ sel.n = 0 \/ sel.s = sel.e \/ CannotWrap(doc, sel) )
        => /\ sel'.n = 1 /\ sel'.s.off \in 1..Len(KidsAt(doc', sel'.s.path))
           /\ LET link == KidsAt(doc', sel'.s.path)[sel'.s.off]
              IN /\ link.tag = "a" /\ link.attr = dlg.linkUrl
                 /\ link.kids = <<T(IF Blank(dlg.linkText) THEN dlg.linkUrl
                                    ELSE Trim(dlg.linkText))>> ]_vars

\* C13 happens: a display text with a trailing space was given at a caret
C13_Witness ==
  /\ last.op = "insertLink" /\ last.branch = "caret"
  /\ sel.n = 1 /\ sel.s.off >= 1
  /\ KidsAt(doc, sel.s.path)[sel.s.off].tag = "a"
  /\ KidsAt(doc, sel.s.path)[sel.s.off].kids = <<T(<<"t">>)>>

\* C14: after an insertLink that took place the selection is a caret
\* right after the new link: the link is the child before the caret.
C14_CaretAfterLink ==
  [][ (last'.op = "insertLink" /\ ~Blank(dlg.linkUrl))
        => /\ sel'.n = 1 /\ sel'.s = sel'.e
           /\ sel'.s.path = <<>> \/ ~IsText(NodeAt(doc', sel'.s.path))
           /\ sel'.s.off \in 1..Len(KidsAt(doc', sel'.s.path))
           /\ NewLinkAt(sel'.s.path \o <<sel'.s.off>>, dlg.linkUrl,
                        TextBefore(doc, LinkPlace.path, LinkPlace.off)) ]_vars

\* C14 happens: a range inside a paragraph was wrapped and the caret is
\* inside the paragraph, after the link
C14_Witness ==
  /\ last.op = "insertLink" /\ last.branch = "surround"
  /\ sel.n = 1 /\ sel.s = sel.e /\ Len(sel.s.path) = 1 /\ sel.s.off >= 1
  /\ doc[sel.s.path[1]].tag = "p"
  /\ doc[sel.s.path[1]].kids[sel.s.off].tag = "a"
  /\ TextOf(doc[sel.s.path[1]].kids[sel.s.off].kids) # <<>>

----------------------------------------------------------------------------
(* insertImage *)

\* C15: insertImageFromUrl with a url that is not blank leaves a caret
\* right after one centred block holding the image and a line break, and
\* on an empty document the document is that one block.
C15_CentredBlockThenCaret ==
  [][ (last'.op = "insertImage" /\ last'.branch # "rejected")
        => /\ sel'.n = 1 /\ sel'.s = sel'.e
           /\ sel'.s.path = <<>> \/ ~IsText(NodeAt(doc', sel'.s.path))
           /\ sel'.s.off \in 1..Len(KidsAt(doc', sel'.s.path))
           /\ LET block == KidsAt(doc', sel'.s.path)[sel'.s.off]
              IN /\ block.tag = "p" /\ block.align = "center"
                 /\ Len(block.kids) = 2
                 /\ block.kids[1].tag = "img" /\ ~Blank(block.kids[1].attr)
                 /\ block.kids[2].tag = "br"
                 /\ doc = <<>> => doc' = <<block>> ]_vars

----------------------------------------------------------------------------
(* The upload *)

\* C16: whatever the user does with the image dialog (open, dismiss,
\* reopen, pick a file, remove it, confirm), at most one upload request
\* is in flight.
C16_OneUploadInFlight == Len(dlg.inflight) <= 1

\* C16 happens: the dialog was dismissed during an upload and is open
\* again, the request still in flight
C16_Witness ==
  /\ Len(dlg.inflight) = 1 /\ dlg.uploadingImage
  /\ dlg.showImageDialog /\ dlg.imageFile = NoFile
  /\ ops = 2

\* C17: an upload that fails (fetch rejects, a status that is not 2xx, a
\* 2xx answer without url) shows a message, ends the uploading status,
\* leaves the document alone, emits nothing and leaves no request behind.
C17_FailureIsReported ==
  [][ (last'.op = "uploadSettled" /\ last'.arg # "url")
        => /\ last'.alert # ""
           /\ ~dlg'.uploadingImage /\ dlg'.inflight = <<>>
           /\ doc' = doc
           /\ last'.emits = 0 /\ outbox' = None ]_vars

\* the img elements of a tree
Images(kids) == TaggedPaths(kids, {"img"})

\* C18: an upload goes on after the dialog was dismissed: when it answers
\* with a url the image is put into the document as it is then, what was
\* typed since the dismissal included, and the new value is emitted.
C18_UploadOutlivesDialog ==
  [][ (last'.op = "uploadSettled" /\ last'.arg = "url" /\ ~dlg.showImageDialog)
        => /\ \E l \in Images(doc') :
                /\ NodeAt(doc', l).attr = UploadedUrl
                /\ TextBefore(doc', l, 0) = TextBefore(doc, LinkPlace.path, LinkPlace.off)
           /\ sel.n = 0 \/ sel.s = sel.e
                => Cardinality(Images(doc')) = Cardinality(Images(doc)) + 1
           /\ TextOf(doc') = IF sel.n = 1
                             THEN TextBefore(doc, sel.s.path, sel.s.off)
                                  \o TextAfter(doc, sel.e)
                             ELSE TextOf(doc)
           /\ last'.emits = 1 /\ outbox' = InnerHTML(doc') ]_vars

\* C18 happens: a space was typed into the empty document after the
\* dialog was dismissed, and the image arrived next to it
C18_Witness ==
  /\ last.op = "uploadSettled" /\ last.arg = "url"
  /\ TextOf(doc) = <<" ">>
  /\ Images(doc) # {}
  /\ ~dlg.showImageDialog /\ ~dlg.uploadingImage

\* the file of the chooser with the given name
FileNamed(name) == CHOOSE f \in Files : f.name = name

\* C19: a file whose type is not an image type, or whose size is above
\* 10 * 1024 * 1024 bytes, is turned away with a message before any
\* hook changes: the pending file, the preview and the reads under way
\* stay as they are.  An image of exactly 10 * 1024 * 1024 bytes is taken.
C19_FileValidatedFirst ==
  [][ last'.op = "selectFile"
        => LET file == FileNamed(last'.arg)
           IN IF ~file.image \/ file.size > 10 * 1024 * 1024
              THEN /\ last'.alert # ""
                   /\ dlg' = dlg
                   /\ dlg'.imageFile # file
              ELSE /\ last'.alert = ""
                   /\ dlg'.imageFile = file
                   /\ file.name \in dlg'.reading ]_vars

\* C19 happens: an image of exactly the limit is the pending file
C19_Witness ==
  /\ last.op = "selectFile" /\ last.arg = "a.png"
  /\ dlg.imageFile.size = MaxImageBytes /\ dlg.imageFile.image
  /\ "a.png" \in dlg.reading

----------------------------------------------------------------------------
(* Paste *)

\* C20: after a paste of rich markup no script, style, iframe, object or
\* embed element is in the document, at any depth; a paste of plain text
\* alone puts that text, as text, where the selection was (at the end of
\* the document when there is none) and adds no element.
C20_PasteIsSanitized ==
  [][ last'.op = "paste"
        => /\ last'.arg = "html" => TaggedPaths(doc', StrippedTags) = {}
           /\ last'.arg = "text" =>
                \E clip \in Clips :
                  /\ ClipKind(clip) = "text"
                  /\ TextOf(doc') =
                       TextBefore(doc, LinkPlace.path, LinkPlace.off)
                       \o clip.text
                       \o TextAfter(doc, IF sel.n = 1 THEN sel.e ELSE LinkPlace)
                  /\ ElemCount(doc') <= ElemCount(doc) ]_vars

----------------------------------------------------------------------------
(* Direction *)

\* C21: in every state after mount the direction of the root and of every
\* node of the document is left-to-right, whatever the owner's value or
\* the clipboard brought in.
C21_EverythingLeftToRight ==
  /\ rootDir = "ltr"
  /\ \A p \in Paths(doc) : ComputedDirection(impl, doc, p, rootDir) = "ltr"

----------------------------------------------------------------------------
(* Inline styles and block formats *)

\* C22: bold, italic or underline invoked without a selection first puts
\* a caret at the end of the document (position 0 of the root when the
\* document is empty) and leaves the tree alone; with a selection the
\* command works on that selection as it is: a caret stays where it was,
\* a range keeps its text and becomes the content of the inline element.
C22_SelectionEnsuredOrKept ==
  [][ last'.op = "execCommand"
        => IF sel.n = 0
           THEN sel' = Caret(Pos(<<>>, Len(doc))) /\ doc' = doc
           ELSE IF sel.s = sel.e
           THEN sel' = sel /\ doc' = doc
           ELSE last'.branch = "applied"
                  => /\ TextOf(doc') = TextOf(doc)
                     /\ sel'.n = 1
                     /\ RangeText(doc', sel') = RangeText(doc, sel)
                     /\ ElemCount(doc') > ElemCount(doc) ]_vars


\* C23: a heading or Normal Text button reformats the block the selection
\* is in to the kind of the button: the native command takes that kind,
\* and afterwards the selection is inside an element of that kind.
C23_BlockBecomesKind ==
  [][ last'.op = "formatBlock"
        => /\ last'.branch = "applied"
           /\ sel'.n = 1
           /\ \E j \in 1..Len(sel'.s.path) :
                NodeAt(doc', SubSeq(sel'.s.path, 1, j)).tag = last'.arg ]_vars

----------------------------------------------------------------------------
(* The pending upload *)

\* C24: whenever the image dialog is closed and no upload is in flight,
\* there is no selected file and the preview is empty.
C24_ClosedDialogHoldsNothing ==
  (~dlg.showImageDialog /\ dlg.inflight = <<>>)
    => (dlg.imageFile = NoFile /\ dlg.imagePreview = "")

----------------------------------------------------------------------------
(* The caret that cannot be restored *)

\* C25: the editor focused with the caret at plain-text offset k > 0 and
\* a value v that differs from innerHTML and holds fewer than k
\* characters of text: reconcile(v) still replaces the tree by v, puts no
\* caret into it (the selection is what replacing the tree leaves, a
\* collapsed range at (root, 0)), does not touch the focus, throws
\* nothing and emits nothing.
C25_ShortValueLeavesCaretUnset ==
  [][ LET k == Len(TextBefore(doc, sel.e.path, sel.e.off)) IN
      ( /\ last'.op = "reconcile"
        /\ focused /\ sel.n = 1 /\ k > 0
        /\ value' # InnerHTML(doc)
        /\ Len(TextOf(Parse(value'))) < k )
        => ( /\ doc' = Parse(value')
             /\ sel' = Caret(Pos(<<>>, 0))
             /\ focused' = focused
             /\ ~last'.threw /\ last'.emits = 0 /\ outbox' = None ) ]_vars

\* C25 happens: a value with some text, but less than the saved offset,
\* replaced the tree of the focused editor
C25_Witness ==
  /\ last.op = "reconcile" /\ last.branch = "replaced" /\ last.k > 1
  /\ focused /\ doc # <<>>
  /\ TextOf(doc) # <<>> /\ Len(TextOf(doc)) < last.k
  /\ sel = Caret(Pos(<<>>, 0))

----------------------------------------------------------------------------
(* Emission *)

\* C26: every emit leaves the root left-to-right and hands the owner the
\* serialization of the root's content; where the emit is the whole
\* callback (typing, blur) the root's alignment becomes left exactly when
\* no descendant carries an alignment and is unchanged otherwise.
C26_EmitBookkeeping ==
  [][ /\ last'.emits > 0
        => /\ rootDir' = "ltr"
           /\ outbox' = InnerHTML(doc')
           /\ ~HasAlignedChildren(doc') => rootAlign' = "left"
      /\ last'.op \in {"input", "blur"}
        => /\ last'.emits = 1
           /\ HasAlignedChildren(doc') => rootAlign' = rootAlign ]_vars

\* C26 happens: the editor lost focus while a descendant carried an
\* alignment and the root was not aligned left, and stayed so
C26_Witness ==
  /\ last.op = "blur" /\ last.emits = 1
  /\ HasAlignedChildren(doc) /\ rootAlign # "left"
  /\ outbox = InnerHTML(doc)

----------------------------------------------------------------------------
(* The selection of the page *)

\* C27: wherever the selection of the page is, in the editor or outside
\* it, insertLink and insertImage put no node outside the editor root.
C27_NothingOutsideRoot ==
  [][ last'.op \in {"insertLink", "insertImage", "uploadSettled"}
        => last'.outside = <<>> ]_vars

----------------------------------------------------------------------------
(* The end of an upload *)

\* C28: an upload that has started comes back to idle when its request
\* settles: whatever the outcome, the step that settles it clears the
\* uploading flag, the file and the preview and closes the dialog, and no
\* upload stays in the uploading status for ever.
C28_UploadReturnsToIdle ==
  /\ [][ last'.op = "uploadSettled"
           => /\ ~dlg'.uploadingImage /\ dlg'.inflight = <<>>
              /\ dlg'.imageFile = NoFile /\ dlg'.imagePreview = ""
              /\ ~dlg'.showImageDialog ]_vars
  /\ (dlg.uploadingImage ~> ~dlg.uploadingImage)

\* C28 happens: a request failed while the dialog was open with the file
\* and its preview, and all of it is gone
C28_Witness ==
  /\ last.op = "uploadSettled" /\ last.arg = "status"
  /\ last.alert # ""
  /\ ~dlg.uploadingImage /\ dlg.imageFile = NoFile /\ dlg.imagePreview = ""
  /\ ~dlg.showImageDialog /\ dlg.reading = {}

----------------------------------------------------------------------------
(* C29: the answer of handleMongoError *)

\* the request was rejected with an error object and the callback of
\* .catch has classified it
Classified ==
  srv.phase = "done" /\ srv.how = "rejects" /\ srv.err.defined

\* err.message contains the word
Mentions(err, word) == err.hasMessage /\ Includes(err.message, word)

\* the condition of the claim for a connection error
ConnectionCase(err) ==
  \/ err.name = "MongoNetworkError"
  \/ err.name = "MongoServerSelectionError"
  \/ err.name = "MongoTimeoutError"
  \/ Mentions(err, <<"E", "T", "I", "M", "E", "D", "O", "U", "T">>)
  \/ Mentions(err, <<"E", "C", "O", "N", "N", "R", "E", "F", "U", "S", "E", "D">>)
  \/ Mentions(err, <<"c", "o", "n", "n", "e", "c", "t", "i", "o", "n">>)
  \/ Mentions(err, <<"t", "i", "m", "e", "d", " ", "o", "u", "t">>)
  \/ Mentions(err, <<"t", "i", "m", "e", "o", "u", "t">>)

\* C29 as stated: handleMongoError(err) returns isConnectionError true,
\* status 503 and the fixed message exactly in the connection case, and
\* then the original message is not part of the returned one; otherwise
\* isConnectionError false, message err.message ('An error occurred' when
\* the property is absent) and status err.statusCode (500 when the
\* property is absent).  An empty message, a status code 0, and the
\* message 'connection' (a part of the fixed message) refute it.
C29_AbsentOnly ==
  Classified =>
    LET err == srv.err
        r == srv.info
    IN IF ConnectionCase(err)
       THEN /\ r.isConnectionError /\ r.statusCode = 503
            /\ r.message = ConnectionMessage
            /\ err.hasMessage => ~Includes(r.message, err.message)
       ELSE /\ ~r.isConnectionError
            /\ r.message = IF err.hasMessage THEN err.message
                            ELSE DefaultMessage
            /\ r.statusCode = IF err.hasCode THEN err.statusCode ELSE 500

\* C29, amended: handleMongoError(err) returns isConnectionError true,
\* status 503 and the fixed message, whatever err.message is, exactly in
\* the connection case; otherwise isConnectionError false, message
\* err.message ('An error occurred' when it is absent or empty) and status
\* err.statusCode (500 when it is absent or 0).
C29_ClassifiesError ==
  Classified =>
    LET err == srv.err
        r == srv.info
    IN IF ConnectionCase(err)
       THEN /\ r.isConnectionError /\ r.statusCode = 503
            /\ r.message = ConnectionMessage
       ELSE /\ ~r.isConnectionError
            /\ r.message = IF err.hasMessage /\ err.message # <<>>
                            THEN err.message ELSE DefaultMessage
            /\ r.statusCode = IF err.hasCode /\ err.statusCode # 0
                               THEN err.statusCode ELSE 500

\* an error with an empty message and the status code 0 was answered with
\* 'An error occurred' and 500
C29_Witness ==
  /\ Classified
  /\ srv.err.name = "Error"
  /\ srv.err.hasMessage /\ srv.err.message = <<>>
  /\ srv.err.hasCode /\ srv.err.statusCode = 0
  /\ srv.info = [isConnectionError |-> FALSE, message |-> DefaultMessage,
                 statusCode |-> 500]

----------------------------------------------------------------------------
(* C30: what asyncHandler does with an error of the handler *)

\* C30: once the wrapper is through with a request whose handler raised an
\* error, thrown or delivered as a rejected promise, it has written exactly
\* one response, {success: false, error: message} with the status and the
\* message handleMongoError computes, no exception has left the wrapper,
\* no rejection is left unhandled and the wrapper has not called next.
C30_ErrorAnsweredOnce ==
  (srv.phase = "done" /\ srv.how \in {"throws", "rejects"} /\ srv.err.defined)
    => /\ Len(srv.sent) = 1
       /\ srv.sent[1] = [status |-> handleMongoError(srv.err).statusCode,
                         success |-> FALSE,
                         error |-> handleMongoError(srv.err).message]
       /\ ~srv.escaped
       /\ ~srv.unhandled
       /\ srv.nextCalls = 0

=============================================================================
